---- MODULE Spec2Model ----
(***************************************************************************)
(* WayMux control plane: the tab registry (tab.c), the tab bar's view of   *)
(* it (tab_bar.c) and the operations of the control server (control.c)     *)
(* that mutate it.  The whole program runs on one event loop: every        *)
(* handler below is one atomic step.                                       *)
(***************************************************************************)
EXTENDS Integers, Sequences, FiniteSets, TLC

\* Bound: number of views (and hence tab objects) that ever appear.
MaxViews == 3

\* The null pointer.
NULL == 0

\* tab_bar.h: capacity of the tab bar's button array.
TAB_BAR_MAX_TABS == 256

TabId == 1..MaxViews
ViewId == 1..MaxViews

\* Bound: control clients connected at the same time.
MaxClients == 1

\* Bound: views that are mapped while the control socket is exercised.
MaxListed == 2

ClientId == 1..MaxClients

\* Bound: control clients connected at the same time where the claims are
\* about several connections.
MaxPeers == 2

PeerId == 1..MaxPeers

\* Bound: process ids a waymux instance may run under.
MaxPid == 2

VARIABLES
    server      \* struct cg_server and the heap objects reachable from it

vars == <<server>>

----------------------------------------------------------------------------
(* Sequence helpers                                                        *)

Range(seq) == {seq[i] : i \in 1..Len(seq)}

\* wl_list_remove: unlink one element, the others keep their order.
ListRemove(seq, e) == SelectSeq(seq, LAMBDA x : x # e)

\* 1-based position of e in seq, 0 when absent.
IndexOf(seq, e) ==
    IF e \in Range(seq) THEN CHOOSE i \in 1..Len(seq) : seq[i] = e ELSE 0

Min(a, b) == IF a < b THEN a ELSE b

----------------------------------------------------------------------------
(* Lookups                                                                 *)

\* tab.c tab_count: walks the list and counts.
tab_count(s) == Len(s.tabs)

\* tab.c tab_from_view: first tab of the list whose view is `view`.
tab_from_view(s, view) ==
    IF view = NULL THEN NULL
    ELSE LET hits == {i \in 1..Len(s.tabs) : s.view[s.tabs[i]] = view}
         IN  IF hits = {} THEN NULL
             ELSE s.tabs[CHOOSE i \in hits : \A j \in hits : i <= j]

\* A list walk that wraps around at the end of the list.
find_by_index_wraps(s, tab_num) ==
    IF tab_num >= 0 /\ Len(s.tabs) > 0
    THEN s.tabs[(tab_num % Len(s.tabs)) + 1] ELSE NULL

\* control.c handle_focus_tab / handle_close_tab: the list walk that
\* addresses a tab by its 0-based position, counting every tab.
find_by_index(s, tab_num) ==
    IF tab_num >= 0 /\ tab_num < Len(s.tabs) THEN s.tabs[tab_num + 1] ELSE NULL

----------------------------------------------------------------------------
(* Collaborators: every call on a view is appended to the handler's call   *)
(* log with the registry as the callee would observe it at that instant.   *)

Call(s, fn, view, arg) ==
    [s EXCEPT !.calls = Append(@, [fn |-> fn, view |-> view, arg |-> arg,
                                   tabs |-> s.tabs,
                                   found |-> tab_from_view(s, view)])]

\* view.c (external): view_activate(view, bool)
view_activate(s, view, activate) == Call(s, "view_activate", view, activate)

\* view.c (external): view_position(view)
view_position(s, view) == Call(s, "view_position", view, FALSE)

\* view->impl->close(view): asks the client to close; the unmap follows
\* asynchronously.
view_close(s, view) == Call(s, "close", view, FALSE)

\* tab_bar.c tab_bar_update: rebuilds the buttons from the list, skipping
\* tabs without a view and background tabs.  (Its closing view_position_all
\* is layout only and is not logged.)
tab_bar_update(s) ==
    LET shown == SelectSeq(s.tabs,
                    LAMBDA t : ~(s.view[t] = NULL \/ s.is_background[t]))
        drawn == SubSeq(shown, 1, Min(Len(shown), TAB_BAR_MAX_TABS))
    IN  [s EXCEPT !.bar = drawn]

----------------------------------------------------------------------------
(* tab.c                                                                   *)

\* calloc/free of a struct cg_tab.
FreshTab(s) ==
    IF \E t \in TabId : s.mem[t] = "unalloc"
    THEN CHOOSE t \in TabId :
            s.mem[t] = "unalloc" /\ \A u \in TabId : s.mem[u] = "unalloc" => t <= u
    ELSE NULL

free(s, tab) ==
    [s EXCEPT !.mem[tab] = "freed", !.frees[tab] = @ + 1]

\* Variant of tab_create that links the new tab at the head of the list
\* (wl_list_insert(&server->tabs, ...) instead of server->tabs.prev).
tab_create_prepends(s, view, alloc_ok) ==
    LET tab == FreshTab(s) IN
    IF ~alloc_ok \/ tab = NULL THEN [s EXCEPT !.ret = NULL]
    ELSE LET s1 == [s EXCEPT !.mem[tab] = "live",
                             !.view[tab] = view,
                             !.is_visible[tab] = FALSE,
                             !.is_background[tab] = FALSE,
                             !.tabs = <<tab>> \o @]
         IN  [tab_bar_update(s1) EXCEPT !.ret = tab]

\* Variant of tab_create whose new tab starts out visible.
tab_create_visible(s, view, alloc_ok) ==
    LET tab == FreshTab(s) IN
    IF ~alloc_ok \/ tab = NULL THEN [s EXCEPT !.ret = NULL]
    ELSE LET s1 == [s EXCEPT !.mem[tab] = "live",
                             !.view[tab] = view,
                             !.is_visible[tab] = TRUE,
                             !.is_background[tab] = FALSE,
                             !.tabs = Append(@, tab)]
         IN  [tab_bar_update(s1) EXCEPT !.ret = tab]

\* tab_create: `alloc_ok` is FALSE when calloc or wlr_scene_tree_create
\* fails; the function then returns NULL and touches nothing.
tab_create(s, view, alloc_ok) ==
    LET tab == FreshTab(s) IN
    IF ~alloc_ok \/ tab = NULL THEN [s EXCEPT !.ret = NULL]
    ELSE LET s1 == [s EXCEPT !.mem[tab] = "live",
                             !.view[tab] = view,
                             !.is_visible[tab] = FALSE,
                             !.is_background[tab] = FALSE,
                             !.tabs = Append(@, tab)]
         IN  [tab_bar_update(s1) EXCEPT !.ret = tab]

\* Variant of tab_activate that forgets to hide the previously active tab.
tab_activate_keeps_old_visible(s, tab) ==
    IF tab = NULL THEN s
    ELSE LET old_tab == s.active_tab
             s1 == IF old_tab # NULL /\ old_tab # tab /\ s.view[old_tab] # NULL
                   THEN view_activate(s, s.view[old_tab], FALSE)
                   ELSE s
             s2 == [s1 EXCEPT !.is_visible[tab] = TRUE, !.active_tab = tab]
             s3 == IF s2.view[tab] # NULL
                   THEN view_position(view_activate(s2, s2.view[tab], TRUE),
                                      s2.view[tab])
                   ELSE s2
         IN  tab_bar_update(s3)

\* Variant of tab_activate that activates the new tab's view before it
\* deactivates the old one.
tab_activate_new_first(s, tab) ==
    IF tab = NULL THEN s
    ELSE LET old_tab == s.active_tab
             s1 == [s EXCEPT !.is_visible[tab] = TRUE, !.active_tab = tab]
             s2 == IF s1.view[tab] # NULL
                   THEN view_position(view_activate(s1, s1.view[tab], TRUE),
                                      s1.view[tab])
                   ELSE s1
             s3 == IF old_tab # NULL /\ old_tab # tab
                   THEN LET d == [s2 EXCEPT !.is_visible[old_tab] = FALSE]
                        IN  IF d.view[old_tab] # NULL
                            THEN view_activate(d, d.view[old_tab], FALSE)
                            ELSE d
                   ELSE s2
         IN  tab_bar_update(s3)

\* tab_activate
tab_activate(s, tab) ==
    IF tab = NULL THEN s
    ELSE LET old_tab == s.active_tab
             s1 == IF old_tab # NULL /\ old_tab # tab
                   THEN LET d == [s EXCEPT !.is_visible[old_tab] = FALSE]
                        IN  IF d.view[old_tab] # NULL
                            THEN view_activate(d, d.view[old_tab], FALSE)
                            ELSE d
                   ELSE s
             s2 == [s1 EXCEPT !.is_visible[tab] = TRUE, !.active_tab = tab]
             s3 == IF s2.view[tab] # NULL
                   THEN view_position(view_activate(s2, s2.view[tab], TRUE),
                                      s2.view[tab])
                   ELSE s2
         IN  tab_bar_update(s3)

\* Variant of tab_next that stops at the end of the list instead of
\* wrapping to the first tab.
tab_next_no_wrap(s, current) ==
    IF current = NULL THEN NULL
    ELSE LET i == IndexOf(s.tabs, current)
         IN  IF i # Len(s.tabs) THEN s.tabs[i + 1] ELSE current

\* tab_next: the list successor of `current`, wrapping at the end.
tab_next(s, current) ==
    IF current = NULL THEN NULL
    ELSE LET i == IndexOf(s.tabs, current)
         IN  IF i # Len(s.tabs) THEN s.tabs[i + 1] ELSE s.tabs[1]

\* Variant of tab_prev that stops at the start of the list instead of
\* wrapping to the last tab.
tab_prev_no_wrap(s, current) ==
    IF current = NULL THEN NULL
    ELSE LET i == IndexOf(s.tabs, current)
         IN  IF i # 1 THEN s.tabs[i - 1] ELSE current

\* tab_prev: the list predecessor of `current`, wrapping at the start.
tab_prev(s, current) ==
    IF current = NULL THEN NULL
    ELSE LET i == IndexOf(s.tabs, current)
         IN  IF i # 1 THEN s.tabs[i - 1] ELSE s.tabs[Len(s.tabs)]

\* Variant of tab_destroy that leaves the active reference alone.
tab_destroy_keeps_active(s, tab) ==
    IF tab = NULL THEN s
    ELSE LET s1 == tab_bar_update(s)
             s3 == [s1 EXCEPT !.tabs = ListRemove(@, tab)]
         IN  IF s3.view[tab] # NULL
             THEN LET view == s3.view[tab]
                      s4 == [s3 EXCEPT !.view[tab] = NULL]
                  IN  view_close(s4, view)
             ELSE free(s3, tab)

\* Variant of tab_destroy that asks the view to close before it unlinks the
\* tab and clears its view reference.
tab_destroy_close_first(s, tab) ==
    IF tab = NULL THEN s
    ELSE LET s1 == tab_bar_update(s)
             s2 == IF s1.active_tab = tab
                   THEN [s1 EXCEPT !.active_tab = NULL] ELSE s1
         IN  IF s2.view[tab] # NULL
             THEN LET view == s2.view[tab]
                      s3 == view_close(s2, view)
                  IN  [s3 EXCEPT !.tabs = ListRemove(@, tab), !.view[tab] = NULL]
             ELSE free([s2 EXCEPT !.tabs = ListRemove(@, tab)], tab)

\* Variant of tab_destroy that frees the tab at once even when its view is
\* still bound.
tab_destroy_frees_bound(s, tab) ==
    IF tab = NULL THEN s
    ELSE LET s1 == tab_bar_update(s)
             s2 == IF s1.active_tab = tab
                   THEN [s1 EXCEPT !.active_tab = NULL] ELSE s1
             s3 == [s2 EXCEPT !.tabs = ListRemove(@, tab)]
         IN  IF s3.view[tab] # NULL
             THEN LET view == s3.view[tab]
                      s4 == [s3 EXCEPT !.view[tab] = NULL]
                  IN  free(view_close(s4, view), tab)
             ELSE free(s3, tab)

\* Variant of tab_destroy that selects the next tab when the active one is
\* destroyed.
tab_destroy_reselects(s, tab) ==
    IF tab = NULL THEN s
    ELSE LET s1 == tab_bar_update(s)
             succ == tab_next(s1, tab)
             s2 == IF s1.active_tab = tab
                   THEN [s1 EXCEPT !.active_tab = NULL] ELSE s1
             s3 == [s2 EXCEPT !.tabs = ListRemove(@, tab)]
             s5 == IF s3.view[tab] # NULL
                   THEN LET view == s3.view[tab]
                            s4 == [s3 EXCEPT !.view[tab] = NULL]
                        IN  view_close(s4, view)
                   ELSE free(s3, tab)
         IN  IF s1.active_tab = tab /\ succ # tab
             THEN tab_activate(s5, succ) ELSE s5

\* Variant of tab_destroy that fills the hole in the list with the last
\* tab instead of closing the ranks.
tab_destroy_moves_last(s, tab) ==
    IF tab = NULL THEN s
    ELSE LET s1 == tab_bar_update(s)
             s2 == IF s1.active_tab = tab
                   THEN [s1 EXCEPT !.active_tab = NULL] ELSE s1
             n  == Len(s2.tabs)
             i  == IndexOf(s2.tabs, tab)
             s3 == [s2 EXCEPT !.tabs =
                       [k \in 1..(n - 1) |->
                           IF k = i THEN s2.tabs[n] ELSE s2.tabs[k]]]
         IN  IF s3.view[tab] # NULL
             THEN LET view == s3.view[tab]
                      s4 == [s3 EXCEPT !.view[tab] = NULL]
                  IN  view_close(s4, view)
             ELSE free(s3, tab)

\* tab_destroy
tab_destroy(s, tab) ==
    IF tab = NULL THEN s
    ELSE LET s1 == tab_bar_update(s)
             s2 == IF s1.active_tab = tab
                   THEN [s1 EXCEPT !.active_tab = NULL] ELSE s1
             s3 == [s2 EXCEPT !.tabs = ListRemove(@, tab)]
         IN  IF s3.view[tab] # NULL
             THEN LET view == s3.view[tab]
                      s4 == [s3 EXCEPT !.view[tab] = NULL]
                  IN  view_close(s4, view)
             ELSE free(s3, tab)

\* A tab_set_background that also takes a tab sent to the background out
\* of view and out of the active reference.
tab_set_background_deactivates(s, tab, background) ==
    IF tab = NULL THEN s
    ELSE LET s1 == [s EXCEPT !.is_background[tab] = background]
         IN  IF background
             THEN [s1 EXCEPT !.is_visible[tab] = FALSE,
                             !.active_tab = IF @ = tab THEN NULL ELSE @]
             ELSE s1

\* tab.h tab_set_background (contract of the declaration): stores the flag
\* and changes neither the active tab nor any visibility.
tab_set_background(s, tab, background) ==
    IF tab = NULL THEN s
    ELSE [s EXCEPT !.is_background[tab] = background]

----------------------------------------------------------------------------
(* control.c: the registry part of the IPC commands                        *)

\* A focus-tab that refuses to bring up a background tab.
focus_tab_at_foreground_only(s, tab_num) ==
    LET tab == find_by_index(s, tab_num) IN
    IF tab # NULL /\ ~s.is_background[tab] THEN tab_activate(s, tab) ELSE s

\* handle_focus_tab, after the index has been parsed.
focus_tab_at(s, tab_num) ==
    LET tab == find_by_index(s, tab_num) IN
    IF tab # NULL THEN tab_activate(s, tab) ELSE s

\* handle_close_tab, after the index has been parsed: --force calls the
\* view's close directly, the graceful path goes through tab_destroy.
close_tab_at(s, tab_num, force) ==
    LET tab == find_by_index(s, tab_num) IN
    IF tab = NULL THEN s
    ELSE IF force
         THEN IF s.view[tab] # NULL THEN view_close(s, s.view[tab]) ELSE s
         ELSE tab_destroy(s, tab)

----------------------------------------------------------------------------
(* tab_bar.c: pointer clicks                                               *)

\* The tab a click on button i resolves to: the i-th tab of the list that
\* has a view.
clicked_tab(s, i) ==
    LET with_view == SelectSeq(s.tabs, LAMBDA t : s.view[t] # NULL)
    IN  IF i < Len(with_view) THEN with_view[i + 1] ELSE NULL

\* tab_bar_handle_click on button i of the bar.
tab_bar_handle_click(s, i, on_close_button, button) ==
    LET tab == clicked_tab(s, i) IN
    IF tab = NULL THEN s
    ELSE IF on_close_button /\ button = "BTN_LEFT" THEN tab_destroy(s, tab)
    ELSE IF button = "BTN_LEFT" THEN tab_activate(s, tab)
    ELSE IF button = "BTN_MIDDLE" THEN tab_destroy(s, tab)
    ELSE s

----------------------------------------------------------------------------
(* View lifecycle (the view side of the tab/view pair)                     *)

\* A view is mapped: a tab is created for it and the view remembers it.  A
\* view that got no tab never takes part in the registry and counts as gone.
view_map(s, view, alloc_ok) ==
    LET s1 == tab_create(s, view, alloc_ok)
    IN  [s1 EXCEPT !.view_state[view] = IF s1.ret # NULL THEN "mapped"
                                        ELSE "unmapped",
                   !.view_tab[view] = s1.ret,
                   !.ret = NULL]

\* The view's unmap notification.  A tab that tab_destroy has already taken
\* off the list is released here; a tab still bound to the view is unbound
\* and destroyed (released at once, since it has no view any more).
view_unmap(s, view) ==
    LET tab == s.view_tab[view]
        s1 == [s EXCEPT !.view_state[view] = "unmapped", !.view_tab[view] = NULL]
    IN  IF tab = NULL THEN s1
        ELSE IF s1.view[tab] = view
             THEN tab_destroy([s1 EXCEPT !.view[tab] = NULL], tab)
             ELSE free(s1, tab)

----------------------------------------------------------------------------
(* control.c: text of the line protocol                                    *)

\* Text is a sequence of one-character strings; a C string is the text
\* before its terminating NUL.
CONTROL_BUFFER_SIZE == 4096

STR_list_tabs == <<"l", "i", "s", "t", "-", "t", "a", "b", "s">>
STR_focus_tab == <<"f", "o", "c", "u", "s", "-", "t", "a", "b", " ">>
STR_close_tab == <<"c", "l", "o", "s", "e", "-", "t", "a", "b", " ">>
STR_force == <<"-", "-", "f", "o", "r", "c", "e", " ">>
STR_new_tab == <<"n", "e", "w", "-", "t", "a", "b", " ", "-", "-", " ">>
STR_show_launcher ==
    <<"s", "h", "o", "w", "-", "l", "a", "u", "n", "c", "h", "e", "r">>
STR_unnamed == <<"(", "u", "n", "n", "a", "m", "e", "d", ")">>
STR_unknown == <<"(", "u", "n", "k", "n", "o", "w", "n", ")">>
MSG_OK == <<"O", "K", "\n">>
MSG_MissingIndex ==
    <<"E", "R", "R", "O", "R", " ", "M", "i", "s", "s", "i", "n", "g", " ",
      "t", "a", "b", " ", "i", "n", "d", "e", "x", "\n">>
MSG_InvalidIndex ==
    <<"E", "R", "R", "O", "R", " ", "I", "n", "v", "a", "l", "i", "d", " ",
      "t", "a", "b", " ", "i", "n", "d", "e", "x", "\n">>
MSG_OutOfRange ==
    <<"E", "R", "R", "O", "R", " ", "T", "a", "b", " ", "i", "n", "d", "e",
      "x", " ", "o", "u", "t", " ", "o", "f", " ", "r", "a", "n", "g", "e",
      "\n">>
MSG_Unknown ==
    <<"E", "R", "R", "O", "R", " ", "U", "n", "k", "n", "o", "w", "n", " ",
      "c", "o", "m", "m", "a", "n", "d", "\n">>
MSG_MissingCommand ==
    <<"E", "R", "R", "O", "R", " ", "M", "i", "s", "s", "i", "n", "g", " ",
      "c", "o", "m", "m", "a", "n", "d", "\n">>
MSG_EmptyCommand ==
    <<"E", "R", "R", "O", "R", " ", "E", "m", "p", "t", "y", " ", "c", "o",
      "m", "m", "a", "n", "d", "\n">>
MSG_OutOfMemory ==
    <<"E", "R", "R", "O", "R", " ", "O", "u", "t", " ", "o", "f", " ", "m",
      "e", "m", "o", "r", "y", "\n">>
MSG_FailedFork ==
    <<"E", "R", "R", "O", "R", " ", "F", "a", "i", "l", "e", "d", " ", "t",
      "o", " ", "f", "o", "r", "k", "\n">>

Digits == <<"0", "1", "2", "3", "4", "5", "6", "7", "8", "9">>

Spaces == {" ", "\t", "\n", "\r", "\f"}

DigitValue(ch) == IndexOf(Digits, ch) - 1

Take(str, n) == SubSeq(str, 1, Min(n, Len(str)))

Drop(str, n) == SubSeq(str, n + 1, Len(str))

\* strcmp(a, b) == 0
strcmp0(a, b) == a = b

\* strncmp(a, b, n) == 0: the first n characters agree, a string that ends
\* earlier differing from the longer one at its terminator.
strncmp0(a, b, n) == Take(a, n) = Take(b, n)

\* printf's %d for the non-negative numbers printed here.
RECURSIVE Dec(_)
Dec(n) == IF n < 10 THEN <<Digits[n + 1]>>
          ELSE Dec(n \div 10) \o <<Digits[(n % 10) + 1]>>

\* Length of the longest prefix of str made of characters in (not in) set.
SpanIn(str, set) ==
    LET stops == {i \in 1..Len(str) : str[i] \notin set}
    IN  IF stops = {} THEN Len(str)
        ELSE (CHOOSE i \in stops : \A j \in stops : i <= j) - 1

SpanNotIn(str, set) ==
    LET stops == {i \in 1..Len(str) : str[i] \in set}
    IN  IF stops = {} THEN Len(str)
        ELSE (CHOOSE i \in stops : \A j \in stops : i <= j) - 1

RECURSIVE DigitsValue(_, _)
DigitsValue(str, acc) ==
    IF str = <<>> THEN acc
    ELSE DigitsValue(Tail(str), 10 * acc + DigitValue(Head(str)))

\* A conversion in the manner of atoi: whatever follows the digits is
\* ignored and a text without digits converts to 0.
strtol_atoi(arg) ==
    LET a1     == Drop(arg, SpanIn(arg, Spaces))
        signed == a1 # <<>> /\ Head(a1) \in {"-", "+"}
        a2     == IF signed THEN Tail(a1) ELSE a1
        mag    == DigitsValue(Take(a2, SpanIn(a2, Range(Digits))), 0)
    IN  [value  |-> IF signed /\ Head(a1) = "-" THEN -mag ELSE mag,
         endptr |-> <<>>]

\* strtol(arg, &endptr, 10): leading white space, an optional sign, then
\* digits.  endptr is the text left after the digits, or the whole of arg
\* when there is no digit to convert.  (The digit strings of the inputs are
\* short: the clamp to LONG_MAX is never reached.)
strtol(arg) ==
    LET ws     == SpanIn(arg, Spaces)
        a1     == Drop(arg, ws)
        signed == a1 # <<>> /\ Head(a1) \in {"-", "+"}
        a2     == IF signed THEN Tail(a1) ELSE a1
        nd     == SpanIn(a2, Range(Digits))
        mag    == DigitsValue(Take(a2, nd), 0)
    IN  IF nd = 0 THEN [value |-> 0, endptr |-> arg]
        ELSE [value  |-> IF signed /\ Head(a1) = "-" THEN -mag ELSE mag,
              endptr |-> Drop(a2, nd)]

\* strtok_r(cmd, " ", ...) until it returns NULL: the non-empty runs of
\* characters between spaces.
RECURSIVE Tokens(_)
Tokens(str) ==
    LET s1 == Drop(str, SpanIn(str, {" "}))
        n  == SpanNotIn(s1, {" "})
    IN  IF s1 = <<>> THEN <<>>
        ELSE <<Take(s1, n)>> \o Tokens(Drop(s1, n))

\* offset += snprintf(response + offset, CONTROL_BUFFER_SIZE - offset, ...)
\* on r = [text, offset, oob]: text is the string in response[], oob tells
\* that a write went past the end of response[].  snprintf stores at most
\* size - 1 characters and a NUL, stores nothing when size is 0, and returns
\* the length of the whole formatted text.  Once offset exceeds the buffer
\* size the size_t difference wraps around and the write lands outside the
\* array.
snprintf(r, formatted) ==
    IF r.offset > CONTROL_BUFFER_SIZE
    THEN [r EXCEPT !.offset = @ + Len(formatted), !.oob = TRUE]
    ELSE LET size == CONTROL_BUFFER_SIZE - r.offset
         IN  [r EXCEPT !.offset = @ + Len(formatted),
                       !.text = IF size = 0 THEN @
                                ELSE Take(@, r.offset)
                                       \o Take(formatted, size - 1)]

----------------------------------------------------------------------------
(* control.c: clients, responses and command handlers                      *)

\* The titles a view can carry: none yet, a short one, or one that does not
\* fit the response buffer.
Titles == {"none", "short", "long"}

LongTitle == [i \in 1..(CONTROL_BUFFER_SIZE - 6) |-> "x"]

\* The NULL of a char pointer, distinct from every text.
NULL_STR == <<"NULL">>

\* view.c (external): view_get_title / view_get_app_id, NULL while the
\* client has set none.
view_get_title(s, view) ==
    CASE s.title[view] = "none"  -> NULL_STR
      [] s.title[view] = "short" -> <<"T">> \o Dec(view)
      [] s.title[view] = "long"  -> LongTitle

view_get_app_id(s, view) ==
    IF s.title[view] = "none" THEN NULL_STR ELSE <<"a", "p", "p">>

\* A slot of the control server's client list that holds no client.
NoClient == [state  |-> "free",    \* "open" while a cg_control_client exists
             buffer |-> <<>>,      \* buffer[0 .. buffer_len)
             wr_shut |-> FALSE,    \* shutdown(fd, SHUT_WR) has been called
             rx     |-> <<>>,      \* bytes written by the peer, not yet read
             script |-> <<>>,      \* the writes the peer still intends
             peer   |-> "new",     \* peer's end: "new" (nothing written
                                   \* yet), "open", "shut" (its write side
                                   \* shut down), "closed"
             nresp  |-> 0,         \* responses delivered to the peer
             room   |-> CONTROL_BUFFER_SIZE]
                                   \* bytes the socket's send buffer has
                                   \* room for

\* What a command can observe or change outside its own client.
Snap(s) == [tabs             |-> s.tabs,
            active_tab       |-> s.active_tab,
            view             |-> s.view,
            is_visible       |-> s.is_visible,
            is_background    |-> s.is_background,
            calls            |-> s.calls]

\* Log of the handler's protocol steps in program order: "read" (text: the
\* buffer once the bytes read are in it), "dispatch" (text: the command
\* handed to process_command) and "send" (text: the message handed to
\* send(), ok: whether send() took it and the peer receives the message),
\* each with the state at that instant and whether the client's write side
\* had been shut down by then.
Io(s, op, c, text, ok) ==
    [s EXCEPT !.io = Append(@, [op |-> op, client |-> c, text |-> text,
                                ok |-> ok, snap |-> Snap(s),
                                wr_shut |-> s.clients[c].wr_shut])]

\* control_client_send without the closing shutdown().
control_client_send_keeps_open(s, c, message) ==
    LET cl == s.clients[c]
        ok == ~cl.wr_shut /\ cl.peer # "closed"
        s1 == Io(s, "send", c, message, ok)
    IN  IF ok THEN [s1 EXCEPT !.clients[c].nresp = @ + 1] ELSE s1

\* control_client_send: send() fails with EPIPE once the write side has been
\* shut down or the peer is gone, and then nothing else happens; otherwise
\* the message is queued to the peer and the write side is shut down.
control_client_send(s, c, message) ==
    LET cl   == s.clients[c]
        len  == Len(message)
        \* send() on the non-blocking fd: -1 after shutdown (EPIPE), to a
        \* closed peer, or with no room at all (EAGAIN); otherwise the
        \* number of bytes the send buffer took.
        sent == IF cl.wr_shut \/ cl.peer = "closed" THEN -1
                ELSE IF cl.room = 0 /\ len > 0 THEN -1
                ELSE IF cl.room < len THEN cl.room ELSE len
        ok   == sent >= 0
        s1   == Io(s, "send", c, message, ok)
        s2   == IF ok /\ sent < len
                THEN Io(s1, "short", c, Take(message, sent), TRUE)
                ELSE s1
    IN  IF ok THEN [s2 EXCEPT !.clients[c].nresp = @ + 1,
                              !.clients[c].wr_shut = TRUE]
        ELSE s2

\* The detail line of the tab at 1-based list position i, as formatted by
\* "%d: [%s] %s\n".
TabLine(s, i) ==
    LET view       == s.view[s.tabs[i]]
        view_title  == IF view # NULL THEN view_get_title(s, view)
                       ELSE NULL_STR
        view_app_id == IF view # NULL THEN view_get_app_id(s, view)
                       ELSE NULL_STR
        title  == IF view_title # NULL_STR THEN view_title ELSE STR_unnamed
        app_id == IF view_app_id # NULL_STR THEN view_app_id ELSE STR_unknown
    IN  Dec(i - 1) \o <<":", " ", "[">> \o app_id \o <<"]", " ">> \o title
          \o <<"\n">>

RECURSIVE ListLines(_, _, _)
ListLines(s, r, i) ==
    IF i > Len(s.tabs) THEN r
    ELSE ListLines(s, snprintf(r, TabLine(s, i)), i + 1)

\* handle_list_tabs.  A write outside response[] is undefined behaviour:
\* the process either aborts (ub_abort) or carries on with the string that
\* is in response[].
handle_list_tabs(s, c, ub_abort) ==
    LET r0 == snprintf([text |-> <<>>, offset |-> 0, oob |-> FALSE],
                       <<"O", "K", " ">> \o Dec(tab_count(s)) \o <<"\n">>)
        r  == ListLines(s, r0, 1)
    IN  IF r.oob /\ ub_abort THEN [s EXCEPT !.crashed = TRUE]
        ELSE control_client_send(s, c, r.text)

\* handle_focus_tab
handle_focus_tab(s, c, arg) ==
    IF arg = <<>> THEN control_client_send(s, c, MSG_MissingIndex)
    ELSE LET n == strtol(arg) IN
         IF n.endptr # <<>> \/ n.value < 0
         THEN control_client_send(s, c, MSG_InvalidIndex)
         ELSE IF find_by_index(s, n.value) # NULL
              THEN control_client_send(focus_tab_at(s, n.value), c, MSG_OK)
              ELSE control_client_send(s, c, MSG_OutOfRange)

\* handle_close_tab
handle_close_tab(s, c, arg, force) ==
    IF arg = <<>> THEN control_client_send(s, c, MSG_MissingIndex)
    ELSE LET n == strtol(arg) IN
         IF n.endptr # <<>> \/ n.value < 0
         THEN control_client_send(s, c, MSG_InvalidIndex)
         ELSE IF find_by_index(s, n.value) # NULL
              THEN control_client_send(close_tab_at(s, n.value, force), c,
                                       MSG_OK)
              ELSE control_client_send(s, c, MSG_OutOfRange)

\* launcher.c (external): launcher_show(server->launcher)
launcher_show(s) == Call(s, "launcher_show", NULL, FALSE)

\* fork() of a child that execs argv: the child is on its own from here.
fork(s, argv) == Call(s, "fork", NULL, FALSE)

\* handle_show_launcher
handle_show_launcher(s, c) == control_client_send(launcher_show(s), c, MSG_OK)

\* handle_new_tab: splits cmd at spaces into argv and forks a child that
\* execs it.  alloc_ok and fork_ok are the outcomes of strdup/calloc and of
\* fork.
handle_new_tab(s, c, cmd, alloc_ok, fork_ok) ==
    IF cmd = <<>> THEN control_client_send(s, c, MSG_MissingCommand)
    ELSE IF ~alloc_ok THEN control_client_send(s, c, MSG_OutOfMemory)
    ELSE IF Tokens(cmd) = <<>> THEN control_client_send(s, c, MSG_EmptyCommand)
    ELSE IF ~fork_ok THEN control_client_send(s, c, MSG_FailedFork)
    ELSE control_client_send(fork(s, Tokens(cmd)), c, MSG_OK)

\* The outcomes the environment decides during one handler run.
Env == [ub_abort : BOOLEAN, alloc_ok : BOOLEAN, fork_ok : BOOLEAN]

\* process_command taking any other command for show-launcher.
process_command_lenient(s, c, command, env) ==
    LET s1 == Io(s, "dispatch", c, command, TRUE) IN
    IF strcmp0(command, STR_list_tabs)
    THEN handle_list_tabs(s1, c, env.ub_abort)
    ELSE IF strncmp0(command, STR_focus_tab, 10)
    THEN handle_focus_tab(s1, c, Drop(command, 10))
    ELSE IF strncmp0(command, STR_close_tab, 10)
    THEN IF strncmp0(Drop(command, 10), STR_force, 8)
         THEN handle_close_tab(s1, c, Drop(command, 18), TRUE)
         ELSE handle_close_tab(s1, c, Drop(command, 10), FALSE)
    ELSE IF strncmp0(command, STR_new_tab, 10)
    THEN handle_new_tab(s1, c, Drop(command, 10), env.alloc_ok, env.fork_ok)
    ELSE handle_show_launcher(s1, c)

\* process_command
process_command(s, c, command, env) ==
    LET s1 == Io(s, "dispatch", c, command, TRUE) IN
    IF strcmp0(command, STR_list_tabs)
    THEN handle_list_tabs(s1, c, env.ub_abort)
    ELSE IF strncmp0(command, STR_focus_tab, 10)
    THEN handle_focus_tab(s1, c, Drop(command, 10))
    ELSE IF strncmp0(command, STR_close_tab, 10)
    THEN IF strncmp0(Drop(command, 10), STR_force, 8)
         THEN handle_close_tab(s1, c, Drop(command, 18), TRUE)
         ELSE handle_close_tab(s1, c, Drop(command, 10), FALSE)
    ELSE IF strncmp0(command, STR_new_tab, 10)
    THEN handle_new_tab(s1, c, Drop(command, 10), env.alloc_ok, env.fork_ok)
    ELSE IF strcmp0(command, STR_show_launcher)
    THEN handle_show_launcher(s1, c)
    ELSE control_client_send(s1, c, MSG_Unknown)

\* A control_client_destroy that takes every client of the server down.
control_client_destroy_all(s, c) ==
    [s EXCEPT !.clients = [d \in DOMAIN s.clients |-> NoClient]]

\* control_client_destroy: the fd is closed and the client freed.
control_client_destroy(s, c) == [s EXCEPT !.clients[c] = NoClient]

\* handle_client_data's loop over the complete lines of the buffer: the
\* first newline ends the command, the rest moves to the front.
RECURSIVE ProcessLines(_, _, _)
ProcessLines(s, c, env) ==
    LET buffer == s.clients[c].buffer
        nl     == SpanNotIn(buffer, {"\n"})
    IN  IF s.crashed \/ nl = Len(buffer) THEN s
        ELSE ProcessLines(
                 [process_command(s, c, Take(buffer, nl), env)
                      EXCEPT !.clients[c].buffer = Drop(buffer, nl + 1)],
                 c, env)

\* handle_client_data without the check for a full buffer after the loop.
handle_client_data_keeps_full(s, c, env) ==
    LET cl == s.clients[c]
        n  == Min(Len(cl.rx), CONTROL_BUFFER_SIZE - Len(cl.buffer))
    IN  IF cl.peer = "closed" THEN control_client_destroy(s, c)
        ELSE IF n <= 0 THEN control_client_destroy(s, c)
        ELSE LET s0 == [s EXCEPT !.clients[c].buffer = @ \o Take(cl.rx, n),
                                 !.clients[c].rx = Drop(cl.rx, n)]
                 s1 == Io(s0, "read", c, s0.clients[c].buffer, TRUE)
             IN  ProcessLines(s1, c, env)

\* handle_client_data for the event mask the socket's state produces: a
\* closed peer raises WL_EVENT_HANGUP, a peer that only shut down its write
\* side makes read() return 0 once the queue is empty.
handle_client_data(s, c, env) ==
    LET cl == s.clients[c]
        n  == Min(Len(cl.rx), CONTROL_BUFFER_SIZE - Len(cl.buffer))
    IN  IF cl.peer = "closed" THEN control_client_destroy(s, c)
        ELSE IF n <= 0 THEN control_client_destroy(s, c)
        ELSE LET s0 == [s EXCEPT !.clients[c].buffer = @ \o Take(cl.rx, n),
                                 !.clients[c].rx = Drop(cl.rx, n)]
                 s1 == Io(s0, "read", c, s0.clients[c].buffer, TRUE)
                 s2 == ProcessLines(s1, c, env)
             IN  IF ~s2.crashed
                    /\ Len(s2.clients[c].buffer) >= CONTROL_BUFFER_SIZE
                 THEN control_client_destroy(s2, c)
                 ELSE s2

\* handle_socket_event: accept(), calloc() and wl_event_loop_add_fd() may
\* each fail, and then the connection is closed and nothing else changes.
handle_socket_event(s, c, setup_ok) ==
    IF setup_ok THEN [s EXCEPT !.clients[c].state = "open"]
    ELSE [s EXCEPT !.clients[c] = NoClient]

----------------------------------------------------------------------------
(* control.c: the server's endpoint                                        *)

\* The value of XDG_RUNTIME_DIR.
RuntimeDir == <<"/", "r", "u", "n">>

STR_waymux_dir == <<"/", "w", "a", "y", "m", "u", "x">>
STR_sock == <<".", "s", "o", "c", "k">>
STR_default == <<"d", "e", "f", "a", "u", "l", "t">>

\* No control server: the pointer is NULL.
NoControl == [listening |-> FALSE, socket_path |-> NULL_STR]

\* control_server_create, past its allocations: the path is formatted with
\* "%s/waymux/%d.sock" from the runtime directory and getpid(), a file left
\* at that path is unlinked, and socket(), bind(), listen() and the event
\* loop registration either all succeed or the function returns NULL with
\* the path unlinked.
control_server_create(s, setup_ok) ==
    LET socket_path == RuntimeDir \o STR_waymux_dir \o <<"/">> \o Dec(s.pid)
                          \o STR_sock
    IN  IF setup_ok
        THEN [s EXCEPT !.control = [listening |-> TRUE,
                                    socket_path |-> socket_path],
                       !.files = @ \cup {socket_path}]
        ELSE [s EXCEPT !.control = NoControl, !.files = @ \ {socket_path}]

\* control_server_destroy's loop over the client list.
RECURSIVE DestroyClients(_, _)
DestroyClients(s, todo) ==
    IF todo = {} THEN s
    ELSE LET c == CHOOSE d \in todo : \A e \in todo : d <= e
         IN  DestroyClients(
                 control_client_destroy(Io(s, "destroy", c, <<>>, TRUE), c),
                 todo \ {c})

\* A control_server_destroy that leaves the socket file behind.
control_server_destroy_keeps_file(s) ==
    IF s.control = NoControl THEN s
    ELSE LET s1 == DestroyClients(s, {c \in DOMAIN s.clients :
                                         s.clients[c].state = "open"})
         IN  [s1 EXCEPT !.control = NoControl]

\* control_server_destroy: every client is destroyed, the listening socket
\* is taken off the event loop and closed, the path is unlinked.
control_server_destroy(s) ==
    IF s.control = NoControl THEN s
    ELSE LET s1 == DestroyClients(s, {c \in DOMAIN s.clients :
                                         s.clients[c].state = "open"})
         IN  [s1 EXCEPT !.control = NoControl,
                        !.files = @ \ {s.control.socket_path}]

----------------------------------------------------------------------------
(* background_dialog.c                                                     *)

\* background_dialog.h: capacity of the query buffer.
BACKGROUND_DIALOG_MAX_QUERY == 256

\* background_dialog.h: capacity of the results array.
DIALOG_MAX_RESULTS == 256

\* The dialog before it is first shown.
NoDialog == [is_visible |-> FALSE, query |-> <<>>, results |-> <<>>,
             selected_index |-> 0]

UpperCase == <<"A", "B", "C", "D", "E", "F", "G", "H", "I", "J", "K", "L", "M",
               "N", "O", "P", "Q", "R", "S", "T", "U", "V", "W", "X", "Y", "Z">>
LowerCase == <<"a", "b", "c", "d", "e", "f", "g", "h", "i", "j", "k", "l", "m",
               "n", "o", "p", "q", "r", "s", "t", "u", "v", "w", "x", "y", "z">>

tolower(ch) ==
    IF ch \in Range(UpperCase) THEN LowerCase[IndexOf(UpperCase, ch)] ELSE ch

\* strstr(haystack, needle) != NULL
strstr0(haystack, needle) ==
    \E i \in 0..(Len(haystack) - Len(needle)) :
        SubSeq(haystack, i + 1, i + Len(needle)) = needle

\* tab_matches_query: the empty query matches every tab; otherwise the
\* lower-cased query must occur in the lower-cased title, cut to the 255
\* characters of title_lower[].
tab_matches_query(s, tab, query) ==
    IF query = <<>> THEN TRUE
    ELSE IF s.view[tab] = NULL THEN FALSE
    ELSE LET title == view_get_title(s, s.view[tab]) IN
         IF title = NULL_STR THEN FALSE
         ELSE LET query_lower == [i \in 1..Len(query) |-> tolower(query[i])]
                  cut         == Take(title, 255)
                  title_lower == [i \in 1..Len(cut) |-> tolower(cut[i])]
              IN  strstr0(title_lower, query_lower)

\* background_dialog_update_results: the background tabs of the list that
\* match the query, as pointers; the selection is pulled back into range.
background_dialog_update_results(s) ==
    LET hits    == SelectSeq(s.tabs,
                       LAMBDA t : /\ s.is_background[t]
                                  /\ tab_matches_query(s, t, s.dialog.query))
        results == SubSeq(hits, 1, Min(Len(hits), DIALOG_MAX_RESULTS))
        n       == Len(results)
    IN  [s EXCEPT !.dialog.results = results,
                  !.dialog.selected_index =
                      IF @ >= n THEN (IF n > 0 THEN n - 1 ELSE 0) ELSE @]

background_dialog_show(s) ==
    IF s.dialog.is_visible THEN s
    ELSE [background_dialog_update_results([s EXCEPT !.dialog.query = <<>>])
             EXCEPT !.dialog.is_visible = TRUE]

background_dialog_hide(s) ==
    IF ~s.dialog.is_visible THEN s ELSE [s EXCEPT !.dialog.is_visible = FALSE]

background_dialog_toggle(s) ==
    IF s.dialog.is_visible THEN background_dialog_hide(s)
    ELSE background_dialog_show(s)

\* background_dialog_handle_key.  Return goes through the pointer stored in
\* results[]; when that tab has been freed the access is undefined
\* behaviour: the process aborts, or the write lands in the freed block and
\* execution goes on.
background_dialog_handle_key(s, sym, ub_abort) ==
    IF ~s.dialog.is_visible THEN s
    ELSE IF sym = "Escape" THEN background_dialog_hide(s)
    ELSE IF sym = "Return"
    THEN IF s.dialog.selected_index < Len(s.dialog.results)
         THEN LET tab == s.dialog.results[s.dialog.selected_index + 1] IN
              IF s.mem[tab] = "freed" /\ ub_abort
              THEN [s EXCEPT !.crashed = TRUE]
              ELSE background_dialog_hide(
                       tab_activate(tab_set_background(s, tab, FALSE), tab))
         ELSE s
    ELSE IF sym = "Up"
    THEN IF s.dialog.selected_index > 0
         THEN [s EXCEPT !.dialog.selected_index = @ - 1] ELSE s
    ELSE IF sym = "Down"
    THEN IF s.dialog.selected_index + 1 < Len(s.dialog.results)
         THEN [s EXCEPT !.dialog.selected_index = @ + 1] ELSE s
    ELSE IF sym = "BackSpace"
    THEN IF Len(s.dialog.query) > 0
         THEN background_dialog_update_results(
                  [s EXCEPT !.dialog.query = SubSeq(@, 1, Len(@) - 1)])
         ELSE s
    ELSE IF Len(s.dialog.query) < BACKGROUND_DIALOG_MAX_QUERY - 1
         THEN background_dialog_update_results(
                  [s EXCEPT !.dialog.query = Append(@, sym)])
         ELSE s

----------------------------------------------------------------------------
(* waymuxctl.c: the command line client                                    *)

STR_instances == <<"i", "n", "s", "t", "a", "n", "c", "e", "s">>
STR_background == <<"b", "a", "c", "k", "g", "r", "o", "u", "n", "d">>
STR_foreground == <<"f", "o", "r", "e", "g", "r", "o", "u", "n", "d">>
STR_dashes == <<"-", "-">>

\* The loop of main's new-tab branch: " %s" for each argument while the
\* offset leaves room, each snprintf cut at the end of server_cmd.
RECURSIVE JoinArgs(_, _, _)
JoinArgs(text, words, i) ==
    IF i > Len(words) \/ Len(text) >= CONTROL_BUFFER_SIZE - 2 THEN text
    ELSE JoinArgs(Take(text \o <<" ">> \o words[i], CONTROL_BUFFER_SIZE - 1),
                  words, i + 1)

\* The client process: where it stands, its exit status (-1 while it
\* runs), the instance name and socket path it connected to, the command it
\* sent, the server's client slot at the other end of its socket, the
\* bytes it has been sent, and the error it reported on stderr.
NoCli == [pc |-> "idle", exit |-> -1, instance_name |-> NULL_STR,
          socket_path |-> NULL_STR, sent |-> NULL_STR, slot |-> NULL,
          inbox |-> <<>>, stderr |-> "none"]

\* connect_to_waymux: WAYMUX_INSTANCE goes before the --instance option,
\* "default" stands in when neither is given; the path is formatted with
\* "%s/%s.sock" and connect() succeeds when a server listens on that path.
connect_to_waymux(s, target_instance, WAYMUX_INSTANCE) ==
    LET instance_name == IF WAYMUX_INSTANCE # NULL_STR THEN WAYMUX_INSTANCE
                         ELSE IF target_instance # NULL_STR
                         THEN target_instance
                         ELSE STR_default
        socket_path == RuntimeDir \o STR_waymux_dir \o <<"/">>
                          \o instance_name \o STR_sock
    IN  [instance_name |-> instance_name,
         socket_path   |-> socket_path,
         ok            |-> /\ socket_path \in s.files
                           /\ s.control.listening
                           /\ s.control.socket_path = socket_path]

\* main's translation of the command words into the line for the server;
\* NULL_STR when main prints an error and returns 1 instead.
server_cmd(words) ==
    IF words = <<>> THEN NULL_STR
    ELSE LET command == words[1] IN
         IF strcmp0(command, STR_list_tabs) THEN STR_list_tabs
         ELSE IF strcmp0(command, Take(STR_focus_tab, 9))
         THEN IF Len(words) < 2 THEN NULL_STR
              ELSE STR_focus_tab \o words[2]
         ELSE IF strcmp0(command, Take(STR_close_tab, 9))
         THEN IF Len(words) < 2 THEN NULL_STR
              ELSE IF strcmp0(words[2], Take(STR_force, 7))
              THEN IF Len(words) < 3 THEN NULL_STR
                   ELSE STR_close_tab \o STR_force \o words[3]
              ELSE STR_close_tab \o words[2]
         ELSE IF strcmp0(command, STR_background)
         THEN IF Len(words) < 2 THEN NULL_STR
              ELSE STR_background \o <<" ">> \o words[2]
         ELSE IF strcmp0(command, STR_foreground)
         THEN IF Len(words) < 2 THEN NULL_STR
              ELSE STR_foreground \o <<" ">> \o words[2]
         ELSE IF strcmp0(command, Take(STR_new_tab, 7))
         THEN IF Len(words) < 2 \/ ~strcmp0(words[2], STR_dashes)
              THEN NULL_STR
              ELSE JoinArgs(Take(STR_new_tab, 10), words, 3)
         ELSE NULL_STR

\* The process returns from main with the given status.
Exit(s, status, stderr) ==
    [s EXCEPT !.cli.pc = "done", !.cli.exit = status, !.cli.stderr = stderr]

\* send_command up to its first recv(): the connection lands in the
\* listening socket's queue (client slot c, not yet accepted) with the
\* command line written to it.  A failing connect() or send() makes
\* send_command return -1.
send_command(s, command, target_instance, WAYMUX_INSTANCE, c, send_ok) ==
    LET conn == connect_to_waymux(s, target_instance, WAYMUX_INSTANCE)
        s1   == [s EXCEPT !.cli.instance_name = conn.instance_name,
                          !.cli.socket_path = conn.socket_path]
    IN  IF ~conn.ok THEN Exit(s1, 1, "Failed to connect to waymux socket")
        ELSE IF ~send_ok
        THEN Exit([s1 EXCEPT !.clients[c].peer = "closed"], 1,
                  "Failed to send command")
        ELSE [s1 EXCEPT !.clients[c].rx = command \o <<"\n">>,
                        !.clients[c].peer = "open",
                        !.cli.pc = "recv",
                        !.cli.sent = command,
                        !.cli.slot = c]

\* A send_command whose result depends on the status line it received.
send_command_recv_checks_status(s, recv_ok) ==
    LET c  == s.cli.slot
        s1 == IF s.clients[c].state = "open"
              THEN [s EXCEPT !.clients[c].peer = "closed"] ELSE s
    IN  IF ~recv_ok THEN Exit(s1, 1, "Failed to read response")
        ELSE Exit(s1, IF Take(s.cli.inbox, 2) = <<"O", "K">> THEN 0 ELSE 1,
                  "none")

\* send_command from the end of file (or the error) of its recv() loop:
\* the status line is skipped, not examined; the socket is closed and the
\* result is 0 unless recv() failed.
send_command_recv(s, recv_ok) ==
    LET c  == s.cli.slot
        s1 == IF s.clients[c].state = "open"
              THEN [s EXCEPT !.clients[c].peer = "closed"] ELSE s
    IN  IF ~recv_ok THEN Exit(s1, 1, "Failed to read response")
        ELSE Exit(s1, 0, "none")

\* main: "instances" is answered from the registry directory, every other
\* command goes to the server, and the exit status is 0 exactly when
\* list_instances or send_command returned 0.
waymuxctl_main(s, words, target_instance, WAYMUX_INSTANCE, c, send_ok, list_ok) ==
    LET s0 == [s EXCEPT !.cli = NoCli] IN
    IF words # <<>> /\ strcmp0(words[1], STR_instances)
    THEN IF list_ok THEN Exit(s0, 0, "none")
         ELSE Exit(s0, 1, "Failed to open registry directory")
    ELSE IF server_cmd(words) = NULL_STR THEN Exit(s0, 1, "usage")
    ELSE send_command(s0, server_cmd(words), target_instance,
                      WAYMUX_INSTANCE, c, send_ok)

----------------------------------------------------------------------------
(* State machine                                                           *)

\* The clicks the handler tells apart: <<on the close button, button>>.
Clicks == {<<TRUE, "BTN_LEFT">>, <<FALSE, "BTN_LEFT">>,
           <<TRUE, "BTN_MIDDLE">>, <<FALSE, "BTN_MIDDLE">>,
           <<FALSE, "BTN_RIGHT">>}

-----------------------------------------------------------------------------
(* registry.c, waymux.c: the instance registry shared by the processes      *)
(* of one runtime directory                                                 *)

\* Processes of waymux that may run next to each other.
MaxInstances == 2
InstId == 1..MaxInstances

\* Instance names (-i, "default" without it) and profile names.
RegNames == {STR_default, <<"w">>}
Profiles == {<<"p">>, <<"q">>}

\* No file <name>.toml in the registry directory.  owner is the process
\* whose fopen created the file; the file itself does not tell.
NoEntry == [exists |-> FALSE, name |-> NULL_STR, pid |-> 0,
            profile |-> NULL_STR, owner |-> 0]

\* A process that is not running.
NoInst == [pc            |-> "off",
           instance_name |-> NULL_STR,
           argv_profile  |-> NULL_STR,  \* argv[optind], if a profile name
           profile_name  |-> NULL_STR,  \* server.profile_name
           spawned       |-> FALSE,     \* the profile's tabs were spawned
           registered    |-> FALSE,     \* registry_register_instance
                                        \* returned true
           ret           |-> 0]

NoRegistry == [files |-> [n \in RegNames |-> NoEntry],
               inst  |-> [k \in InstId |-> NoInst]]

\* registry_is_profile_locked
registry_is_profile_locked(r, profile_name) ==
    IF profile_name = NULL_STR THEN FALSE
    ELSE \E n \in DOMAIN r.files :
            /\ r.files[n].exists
            /\ r.files[n].profile # NULL_STR
            /\ strcmp0(r.files[n].profile, profile_name)

\* registry_register_instance: refuses a name whose file exists.
registry_register_instance(r, k) ==
    LET i == r.inst[k] IN
    IF r.files[i.instance_name].exists THEN r
    ELSE [r EXCEPT !.files[i.instance_name] =
                       [exists  |-> TRUE,
                        name    |-> i.instance_name,
                        pid     |-> k,
                        profile |-> i.profile_name,
                        owner   |-> k],
                   !.inst[k].registered = TRUE]

\* registry_unregister_instance: unlink(<instance_name>.toml).
registry_unregister_instance(r, k) ==
    [r EXCEPT !.files[r.inst[k].instance_name] = NoEntry]

\* main: options parsed, compositor set up, up to the profile argument.
main_start(r, k, instance_name, argv_profile) ==
    [r EXCEPT !.inst[k] = [NoInst EXCEPT
                              !.pc = IF argv_profile = NULL_STR
                                     THEN "run" ELSE "check",
                              !.instance_name = instance_name,
                              !.argv_profile = argv_profile]]

\* spawn_profile_tabs up to the first tab: the lock check, profile_load,
\* the profile name stored in the server.
spawn_profile_tabs_check(r, k, load_ok) ==
    IF registry_is_profile_locked(r, r.inst[k].argv_profile) \/ ~load_ok
    THEN [r EXCEPT !.inst[k].pc = "end", !.inst[k].ret = 1]
    ELSE [r EXCEPT !.inst[k].pc = "spawn",
                   !.inst[k].profile_name = r.inst[k].argv_profile]

\* spawn_profile_tabs: the loop that forks the profile's tabs.
spawn_profile_tabs_spawn(r, k) ==
    [r EXCEPT !.inst[k].pc = "register", !.inst[k].spawned = TRUE]

\* spawn_profile_tabs: registration, whose failure is not fatal.
spawn_profile_tabs_register(r, k) ==
    [registry_register_instance(r, k) EXCEPT !.inst[k].pc = "run"]

\* main: wl_display_run returns.
main_quit(r, k) == [r EXCEPT !.inst[k].pc = "end"]

\* main, label end: the instance unregisters and the process exits.
main_end(r, k) ==
    [registry_unregister_instance(r, k) EXCEPT !.inst[k] = NoInst]

\* Every handler starts with an empty call log.
Begin(s) == [s EXCEPT !.calls = <<>>, !.ret = NULL, !.io = <<>>]

\* main() up to the event loop, for the process id and the instance name
\* the process runs under.
Started(pid, instance_name) ==
    control_server_create(
              [tabs          |-> <<>>,
               active_tab    |-> NULL,
               mem           |-> [t \in TabId |-> "unalloc"],
               frees         |-> [t \in TabId |-> 0],
               view          |-> [t \in TabId |-> NULL],
               is_visible    |-> [t \in TabId |-> FALSE],
               is_background |-> [t \in TabId |-> FALSE],
               view_state    |-> [v \in ViewId |-> "new"],
               view_tab      |-> [v \in ViewId |-> NULL],
               bar           |-> <<>>,
               calls         |-> <<>>,
               ret           |-> NULL,
               title         |-> [v \in ViewId |-> "none"],
               crashed       |-> FALSE,
               clients       |-> [c \in ClientId |-> NoClient],
               io            |-> <<>>,
               pid           |-> pid,
               instance_name |-> instance_name,
               control       |-> NoControl,
               files         |-> {},
               cli           |-> NoCli,
               dialog        |-> NoDialog,
               reg           |-> NoRegistry],
        TRUE)

Init == server = Started(1, STR_default)

\* A client maps a new surface.
ViewMap ==
    \E view \in ViewId, alloc_ok \in BOOLEAN :
        /\ server.view_state[view] = "new"
        /\ \A u \in ViewId : u < view => server.view_state[u] # "new"
        /\ server' = view_map(Begin(server), view, alloc_ok)

\* A client unmaps its surface, of its own accord or after a close request.
ViewUnmap ==
    \E view \in ViewId :
        /\ server.view_state[view] = "mapped"
        /\ server' = view_unmap(Begin(server), view)

\* IPC: focus-tab <tab_num>
IpcFocusTab ==
    \E tab_num \in 0..MaxViews :
        /\ server' = focus_tab_at(Begin(server), tab_num)

\* IPC: close-tab [--force] <tab_num>
IpcCloseTab ==
    \E tab_num \in 0..MaxViews, force \in BOOLEAN :
        /\ server' = close_tab_at(Begin(server), tab_num, force)

\* Pointer click on a button of the tab bar (the bar is enabled only while
\* it shows at least one button).
TabBarClick ==
    \E i \in 0..(MaxViews - 1), click \in Clicks :
        /\ Len(server.bar) > 0
        /\ i < Len(server.bar)
        /\ server' = tab_bar_handle_click(Begin(server), i, click[1], click[2])

\* Hotkeys: next tab / previous tab / close tab / toggle background, all
\* applied to the active tab.
HotkeyNextTab ==
    /\ server.active_tab # NULL
    /\ server' = tab_activate(Begin(server), tab_next(server, server.active_tab))

HotkeyPrevTab ==
    /\ server.active_tab # NULL
    /\ server' = tab_activate(Begin(server), tab_prev(server, server.active_tab))

HotkeyCloseTab ==
    /\ server.active_tab # NULL
    /\ server' = tab_destroy(Begin(server), server.active_tab)

HotkeyToggleBackground ==
    /\ server.active_tab # NULL
    /\ server' = tab_set_background(Begin(server), server.active_tab,
                                    ~server.is_background[server.active_tab])

Next ==
    \/ ViewMap
    \/ ViewUnmap
    \/ IpcFocusTab
    \/ IpcCloseTab
    \/ TabBarClick
    \/ HotkeyNextTab
    \/ HotkeyPrevTab
    \/ HotkeyCloseTab
    \/ HotkeyToggleBackground

Spec == Init /\ [][Next]_vars

----------------------------------------------------------------------------
(* The control socket's state machine                                      *)

Line(command) == command \o <<"\n">>

\* n bytes none of which is a newline.
Fill(n) == [i \in 1..n |-> "x"]

\* What a peer may write on one connection, as the sequence of its write()
\* calls: every command with indices inside and outside the registry,
\* malformed and unknown commands, two commands in one write, commands
\* cut in two by a write boundary, and writes without a newline that fill
\* the client's buffer at once, after a complete line, or in two reads.
Scripts ==
    {<<Line(STR_list_tabs)>>,
     <<Fill(CONTROL_BUFFER_SIZE)>>,
     <<Line(Take(STR_focus_tab, 9)) \o Fill(CONTROL_BUFFER_SIZE - 10)>>,
     <<Fill(CONTROL_BUFFER_SIZE - 96), Fill(200)>>,
     <<Line(STR_show_launcher)>>,
     <<Line(STR_new_tab \o <<"s", "h">>)>>,
     <<Line(<<"q", "u", "i", "t">>)>>,
     <<Line(<<>>)>>,
     <<Line(Take(STR_focus_tab, 9))>>,
     <<Line(Take(STR_close_tab, 9))>>,
     <<Line(STR_focus_tab)>>,
     <<Line(STR_close_tab)>>,
     <<Line(STR_close_tab \o STR_force)>>,
     <<Line(STR_close_tab \o Take(STR_force, 7))>>,
     <<Line(STR_focus_tab \o <<"a", "b", "c">>)>>,
     <<Line(STR_focus_tab \o <<"-", "1">>)>>,
     <<Line(STR_close_tab \o <<"1", "x">>)>>,
     <<Line(STR_close_tab \o STR_force \o <<"-", "1">>)>>,
     <<Line(STR_focus_tab \o <<"0">>) \o Line(STR_list_tabs)>>,
     <<Line(STR_list_tabs) \o Line(STR_close_tab \o <<"0">>)
         \o Take(STR_focus_tab, 5),
       Line(Drop(STR_focus_tab, 5) \o <<"0">>)>>}
      \cup {<<Line(STR_focus_tab \o Dec(i))>> : i \in 0..MaxListed}
      \cup {<<Line(STR_close_tab \o Dec(i))>> : i \in 0..MaxListed}
      \cup {<<Line(STR_close_tab \o STR_force \o Dec(i))>> : i \in 0..MaxListed}

\* A peer connects and the listening socket becomes readable.
ClientConnect ==
    \E c \in ClientId, setup_ok \in BOOLEAN :
        /\ ~server.crashed
        /\ server.clients[c].state = "free"
        /\ \A d \in ClientId : d < c => server.clients[d].state # "free"
        /\ server' = handle_socket_event(Begin(server), c, setup_ok)

\* The peer performs its next write: the first one of the script it
\* chooses, or the next one of the script it has begun.
PeerWrite ==
    \E c \in ClientId, script \in Scripts :
        LET cl == server.clients[c]
            todo == IF cl.peer = "new" THEN script ELSE cl.script
        IN  /\ ~server.crashed
            /\ cl.state = "open"
            /\ cl.peer \in {"new", "open"}
            /\ cl.peer = "open" => script = cl.script
            /\ todo # <<>>
            /\ server' = [Begin(server) EXCEPT
                             !.clients[c].rx = @ \o Head(todo),
                             !.clients[c].script = Tail(todo),
                             !.clients[c].peer = "open"]

\* Having written all it wanted, the peer shuts down its write side or
\* closes its end.
PeerShutdown ==
    \E c \in ClientId :
        /\ ~server.crashed
        /\ server.clients[c].state = "open"
        /\ server.clients[c].peer = "open"
        /\ server.clients[c].script = <<>>
        /\ server' = [Begin(server) EXCEPT !.clients[c].peer = "shut"]

PeerClose ==
    \E c \in ClientId :
        /\ ~server.crashed
        /\ server.clients[c].state = "open"
        /\ server.clients[c].peer # "closed"
        /\ server.clients[c].script = <<>>
        /\ server' = [Begin(server) EXCEPT !.clients[c].peer = "closed"]

\* The event loop reports the client's fd: data, end of file or hang-up.
ClientEvent ==
    \E c \in ClientId, env \in Env :
        /\ ~server.crashed
        /\ server.clients[c].state = "open"
        /\ server.clients[c].rx # <<>>
           \/ server.clients[c].peer \in {"shut", "closed"}
        /\ server' = handle_client_data(Begin(server), c, env)

\* The registry changes under the control socket's feet: views are mapped
\* (their client having set a title or not) and unmapped, and the active
\* tab is sent to the background or brought back.  The call logs of these
\* steps are dropped: only the control socket's steps are observed here.
CtlViewMap ==
    \E view \in 1..MaxListed, title \in Titles :
        /\ ~server.crashed
        /\ server.view_state[view] = "new"
        /\ \A u \in ViewId : u < view => server.view_state[u] # "new"
        /\ server' = Begin(view_map([server EXCEPT !.title[view] = title],
                                    view, TRUE))

CtlViewUnmap ==
    \E view \in ViewId :
        /\ ~server.crashed
        /\ server.view_state[view] = "mapped"
        /\ server' = [Begin(view_unmap(server, view))
                          EXCEPT !.title[view] = "none"]

CtlToggleBackground ==
    /\ ~server.crashed
    /\ server.active_tab # NULL
    /\ server' = Begin(tab_set_background(server, server.active_tab,
                            ~server.is_background[server.active_tab]))

NextCtl ==
    \/ ClientConnect
    \/ PeerWrite
    \/ PeerShutdown
    \/ PeerClose
    \/ ClientEvent
    \/ CtlViewMap
    \/ CtlViewUnmap
    \/ CtlToggleBackground

SpecCtl == Init /\ [][NextCtl]_vars

----------------------------------------------------------------------------
(* Several connections, and the end of the control server                  *)

InitSrv ==
    server = [Started(1, STR_default)
                  EXCEPT !.clients = [c \in PeerId |-> NoClient]]

\* What each of the peers writes, in one write: an unknown command, an
\* index out of range, a close-tab that finds its tab, the beginning of a
\* command, and a buffer's worth of bytes without a newline.
SrvScripts ==
    {Line(<<"q", "u", "i", "t">>),
     Line(STR_focus_tab \o <<"9">>),
     Line(STR_close_tab \o <<"0">>),
     Take(STR_focus_tab, 5),
     Fill(CONTROL_BUFFER_SIZE)}

\* A peer connects while the server listens; accept(), calloc() or the
\* event loop registration may fail.
PeerConnect ==
    \E c \in PeerId, setup_ok \in BOOLEAN :
        /\ server.control.listening
        /\ server.clients[c].state = "free"
        /\ server' = handle_socket_event(Begin(server), c, setup_ok)

PeerSend ==
    \E c \in PeerId, bytes \in SrvScripts :
        /\ server.control.listening
        /\ server.clients[c].state = "open"
        /\ server.clients[c].peer = "new"
        /\ server' = [Begin(server) EXCEPT !.clients[c].rx = bytes,
                                           !.clients[c].peer = "open"]

\* The peer shuts down its write side or closes its end.
PeerHangup ==
    \E c \in PeerId, how \in {"shut", "closed"} :
        /\ server.control.listening
        /\ server.clients[c].state = "open"
        /\ server.clients[c].peer \in {"new", "open"}
        /\ server' = [Begin(server) EXCEPT !.clients[c].peer = how]

PeerEvent ==
    \E c \in PeerId, env \in Env :
        /\ server.control.listening
        /\ server.clients[c].state = "open"
        /\ server.clients[c].rx # <<>>
           \/ server.clients[c].peer \in {"shut", "closed"}
        /\ server' = handle_client_data(Begin(server), c, env)

SrvViewMap ==
    \E view \in 1..MaxListed :
        /\ server.control.listening
        /\ server.view_state[view] = "new"
        /\ \A u \in ViewId : u < view => server.view_state[u] # "new"
        /\ server' = Begin(view_map(server, view, TRUE))

\* main() leaves the event loop and tears the control server down.
ServerDestroy ==
    /\ server.control.listening
    /\ server' = control_server_destroy(Begin(server))

NextSrv ==
    \/ PeerConnect
    \/ PeerSend
    \/ PeerHangup
    \/ PeerEvent
    \/ SrvViewMap
    \/ ServerDestroy

SpecSrv == InitSrv /\ [][NextSrv]_vars

----------------------------------------------------------------------------
(* The background-tabs dialog next to the registry's other handlers        *)

\* Bound: characters typed into the dialog's query.
MaxQuery == 1

\* The keys the dialog tells apart; every other printable key is a query
\* character like these two.
DialogKeys == {"Escape", "Return", "Up", "Down", "BackSpace", "t", "2"}

DlgViewMap ==
    \E view \in 1..MaxListed, title \in {"none", "short"} :
        /\ ~server.crashed
        /\ server.view_state[view] = "new"
        /\ \A u \in ViewId : u < view => server.view_state[u] # "new"
        /\ server' = view_map([Begin(server) EXCEPT !.title[view] = title],
                                view, TRUE)

DlgViewUnmap == ~server.crashed /\ ViewUnmap

DlgFocusTab == ~server.crashed /\ IpcFocusTab

DlgCloseTab == ~server.crashed /\ IpcCloseTab

DlgTabBarClick == ~server.crashed /\ TabBarClick

DlgToggleBackground == ~server.crashed /\ HotkeyToggleBackground

\* The hotkey that shows or hides the dialog.
DlgToggle ==
    /\ ~server.crashed
    /\ server' = background_dialog_toggle(Begin(server))

\* A key press while the dialog is visible.
DlgKey ==
    \E sym \in DialogKeys, ub_abort \in BOOLEAN :
        /\ ~server.crashed
        /\ server.dialog.is_visible
        /\ sym \in {"t", "2"} => Len(server.dialog.query) < MaxQuery
        /\ server' = background_dialog_handle_key(Begin(server), sym, ub_abort)

NextDlg ==
    \/ DlgViewMap
    \/ DlgViewUnmap
    \/ DlgFocusTab
    \/ DlgCloseTab
    \/ DlgTabBarClick
    \/ DlgToggleBackground
    \/ DlgToggle
    \/ DlgKey

SpecDlg == Init /\ [][NextDlg]_vars

----------------------------------------------------------------------------
(* The command line client and the server it talks to                      *)

\* The instance names in use: the default one and a number.
InstanceNames == {STR_default} \cup {Dec(p) : p \in 1..MaxPid}

InitCli ==
    \E pid \in 1..MaxPid, instance_name \in InstanceNames :
        server = [Started(pid, instance_name)
                      EXCEPT !.clients = [c \in PeerId |-> NoClient]]

\* The command words of an invocation.
CliWords ==
    {<<>>,
     <<STR_instances>>,
     <<STR_list_tabs>>,
     <<Take(STR_focus_tab, 9)>>,
     <<Take(STR_focus_tab, 9), <<"0">>>>,
     <<Take(STR_focus_tab, 9), <<"9">>>>,
     <<Take(STR_close_tab, 9), Take(STR_force, 7)>>,
     <<Take(STR_close_tab, 9), <<"0">>>>,
     <<STR_background, <<"0">>>>,
     <<STR_foreground, <<"0">>>>,
     <<Take(STR_new_tab, 7)>>,
     <<Take(STR_new_tab, 7), STR_dashes, <<"s", "h">>>>,
     <<<<"q", "u", "i", "t">>>>}

\* A user runs waymuxctl.
CliMain ==
    \E words \in CliWords,
       target_instance \in InstanceNames \cup {NULL_STR},
       WAYMUX_INSTANCE \in {NULL_STR, STR_default},
       c \in PeerId, send_ok \in BOOLEAN, list_ok \in BOOLEAN :
        /\ server.cli.pc \in {"idle", "done"}
        /\ server.clients[c] = NoClient
        /\ \A d \in PeerId : d < c => server.clients[d] # NoClient
        \* inputs the run does not read are left at one value
        /\ words # <<STR_instances>> => list_ok
        /\ WAYMUX_INSTANCE # NULL_STR => target_instance = NULL_STR
        /\ server' = waymuxctl_main(Begin(server), words, target_instance,
                                    WAYMUX_INSTANCE, c, send_ok, list_ok)

\* The listening socket is readable: a connection waits in its queue.
CliAccept ==
    \E c \in PeerId, setup_ok \in BOOLEAN :
        /\ server.clients[c].state = "free"
        /\ server.clients[c].peer # "new"
        /\ server' = handle_socket_event(Begin(server), c, setup_ok)

\* The bytes the handler sent on the client process's connection reach it.
Deliver(s) ==
    LET got == SelectSeq(s.io, LAMBDA e : /\ e.op = "send" /\ e.ok
                                          /\ e.client = s.cli.slot)
    IN  IF s.cli.pc = "recv" /\ got # <<>>
        THEN [s EXCEPT !.cli.inbox = @ \o got[1].text]
        ELSE s

CliServe ==
    \E c \in PeerId, env \in Env :
        /\ server.clients[c].state = "open"
        /\ server.clients[c].rx # <<>>
           \/ server.clients[c].peer \in {"shut", "closed"}
        /\ server' = Deliver(handle_client_data(Begin(server), c, env))

\* recv() returns 0 once the server has shut down its side or closed the
\* connection, or fails.
CliRecv ==
    \E recv_ok \in BOOLEAN :
        /\ server.cli.pc = "recv"
        /\ server.clients[server.cli.slot].wr_shut
           \/ server.clients[server.cli.slot] = NoClient
        /\ server' = send_command_recv(Begin(server), recv_ok)

NextCli ==
    \/ CliMain
    \/ CliAccept
    \/ CliServe
    \/ CliRecv
    \/ SrvViewMap

SpecCli == InitCli /\ [][NextCli]_vars

----------------------------------------------------------------------------
(* Vocabulary of the properties                                            *)

InRegistry(t) == t \in Range(server.tabs)

\* A tab that tab_destroy took off the list while its view was bound and
\* whose memory waits for the view's unmap.
Closing(t) == server.mem[t] = "live" /\ ~InRegistry(t)

Released(t) == server.mem[t] = "freed"

\* The step is tab_destroy(t) / tab_activate(t) run as a whole handler.
DestroyStep(t) == InRegistry(t) /\ server' = tab_destroy(Begin(server), t)

ActivateStep(t) == InRegistry(t) /\ server' = tab_activate(Begin(server), t)

\* The close calls of the handler that ran last.
CloseCalls(s) == {i \in 1..Len(s.calls) : s.calls[i].fn = "close"}

----------------------------------------------------------------------------
----------------------------------------------------------------------------
\* C2: tab_destroy of a tab with a bound view takes the tab off the list and
\* clears its view reference before the view's close is invoked: at the
\* instant of the close call neither an index lookup nor tab_from_view finds
\* the tab, neither does one made after the handler, and a tab once off the
\* list is never found again.
C2_RemovedBeforeClose ==
    [][/\ \A t \in TabId :
          (DestroyStep(t) /\ server.view[t] # NULL) =>
              LET view == server.view[t] IN
              /\ CloseCalls(server') # {}
              /\ \A i \in CloseCalls(server') :
                    /\ server'.calls[i].view = view
                    /\ t \notin Range(server'.calls[i].tabs)
                    /\ server'.calls[i].found = NULL
              /\ t \notin Range(server'.tabs)
              /\ \A n \in 0..MaxViews : find_by_index(server', n) # t
              /\ tab_from_view(server', view) = NULL
              /\ server'.view[t] = NULL
       /\ \A t \in TabId :
              (server.mem[t] # "unalloc" /\ t \notin Range(server.tabs)) =>
                  /\ t \notin Range(server'.tabs)
                  /\ \A v \in ViewId : tab_from_view(server', v) # t]_vars

\* C2 witness: the last handler closed a view whose tab was, at that
\* instant, no longer to be found, while other tabs remain listed.
C2_Witness ==
    /\ \E i \in CloseCalls(server) : server.calls[i].found = NULL
    /\ Len(server.tabs) >= 1

----------------------------------------------------------------------------
\* C3: every tab is released exactly once.  tab_destroy of a tab with a
\* bound view leaves it closing and unreleased; its release is the unmap of
\* that view; a tab without a view is released by tab_destroy itself; no tab
\* is released twice, a released tab stays released and is reachable neither
\* through the list nor through the active reference.
C3_ReleaseSafe ==
    \A t \in TabId :
        /\ server.frees[t] <= 1
        /\ Released(t) <=> server.frees[t] = 1
        /\ Released(t) => /\ ~InRegistry(t)
                          /\ server.active_tab # t
                          /\ \A v \in ViewId : server.view_tab[v] # t

C3_ReleaseStep ==
    \A t \in TabId :
        /\ Released(t) => Released(t)' /\ server'.frees[t] = server.frees[t]
        /\ (DestroyStep(t) /\ server.view[t] # NULL) =>
                server'.mem[t] = "live" /\ server'.frees[t] = 0
        /\ \A v \in ViewId :
              (server.view_tab[v] = t /\ server' = view_unmap(Begin(server), v)) =>
                  server'.mem[t] = "freed" /\ server'.frees[t] = 1
        /\ (server.mem[t] = "live" /\ server'.mem[t] = "freed") =>
              \E v \in ViewId : /\ server.view_tab[v] = t
                                /\ server' = view_unmap(Begin(server), v)

----------------------------------------------------------------------------
\* C4: at most one tab among the foreground tabs of the registry is visible.
C4_OneVisibleForeground ==
    Cardinality({t \in Range(server.tabs) :
                    ~server.is_background[t] /\ server.is_visible[t]}) <= 1

\* C4 witness: the last handler switched from one tab to another, both
\* foreground and listed.
C4_Witness ==
    /\ \E i \in 1..Len(server.calls) :
          /\ server.calls[i].fn = "view_activate"
          /\ server.calls[i].arg = FALSE
          /\ server.calls[i].found # NULL
          /\ ~server.is_background[server.calls[i].found]
    /\ server.active_tab # NULL
    /\ ~server.is_background[server.active_tab]

----------------------------------------------------------------------------
(* Navigation vocabulary                                                   *)

Background(s) == {t \in Range(s.tabs) : s.is_background[t]}

Foreground(s) == Range(s.tabs) \ Background(s)

\* The tab d places after t in circular list order (d may be negative).
Around(s, t, d) ==
    LET n == Len(s.tabs)
    IN  s.tabs[(((IndexOf(s.tabs, t) - 1 + d) + n) % n) + 1]

\* The first non-background tab met when walking from t in direction dir
\* (+1 forwards, -1 backwards) over the other tabs; t when there is none.
FirstForeground(s, t, dir) ==
    LET n  == Len(s.tabs)
        ds == {d \in 1..(n - 1) : ~s.is_background[Around(s, t, dir * d)]}
    IN  IF ds = {} THEN t
        ELSE Around(s, t, dir * (CHOOSE d \in ds : \A e \in ds : d <= e))

RECURSIVE NextTimes(_, _, _)
NextTimes(s, k, t) == IF k = 0 THEN t ELSE NextTimes(s, k - 1, tab_next(s, t))

RECURSIVE PrevTimes(_, _, _)
PrevTimes(s, k, t) == IF k = 0 THEN t ELSE PrevTimes(s, k - 1, tab_prev(s, t))

----------------------------------------------------------------------------
\* C5: with exactly k of N tabs flagged background, 0 < k < N, tab_next and
\* tab_prev never return a background tab: they return the first
\* non-background tab after (before) t in circular list order, so repeated
\* next (prev) from a foreground tab visits exactly the foreground tabs.
C5_SkipsBackground ==
    LET n == Len(server.tabs)
        k == Cardinality(Background(server))
    IN  (0 < k /\ k < n) =>
            \A t \in Range(server.tabs) :
                /\ ~server.is_background[tab_next(server, t)]
                /\ ~server.is_background[tab_prev(server, t)]
                /\ tab_next(server, t) = FirstForeground(server, t, 1)
                /\ tab_prev(server, t) = FirstForeground(server, t, -1)
                /\ t \in Foreground(server) =>
                      /\ {NextTimes(server, j, t) : j \in 0..n} = Foreground(server)
                      /\ {PrevTimes(server, j, t) : j \in 0..n} = Foreground(server)

----------------------------------------------------------------------------
\* C6: with N >= 1 tabs, none flagged background, N applications of tab_next
\* from any tab t return to t and fewer do not; the last tab's successor is
\* the first tab; likewise for tab_prev, the first tab's predecessor being
\* the last; with one tab both return it.
C6_CycleClosure ==
    LET n == Len(server.tabs) IN
    (n >= 1 /\ Background(server) = {}) =>
        /\ \A t \in Range(server.tabs) :
              /\ NextTimes(server, n, t) = t
              /\ PrevTimes(server, n, t) = t
              /\ \A j \in 1..(n - 1) :
                    NextTimes(server, j, t) # t /\ PrevTimes(server, j, t) # t
        /\ tab_next(server, server.tabs[n]) = server.tabs[1]
        /\ tab_prev(server, server.tabs[1]) = server.tabs[n]

\* C6 witness: three foreground tabs, and the last handler moved the
\* activation from the last tab of the list to the first.
C6_Witness ==
    /\ Len(server.tabs) >= 3
    /\ Background(server) = {}
    /\ server.active_tab = server.tabs[1]
    /\ \E i \in 1..Len(server.calls) :
          /\ server.calls[i].fn = "view_activate"
          /\ server.calls[i].arg = FALSE
          /\ server.calls[i].found = server.tabs[Len(server.tabs)]

----------------------------------------------------------------------------
\* C7: when every tab other than t is flagged background (in particular
\* when all tabs are), tab_next(t) = t and tab_prev(t) = t.
C7_AllBackgroundStays ==
    \A t \in Range(server.tabs) :
        (Range(server.tabs) \ {t} \subseteq Background(server)) =>
            /\ tab_next(server, t) = t
            /\ tab_prev(server, t) = t

----------------------------------------------------------------------------
\* C8: tab_destroy(t) of the active tab leaves no tab active, tab_destroy
\* of another tab leaves the active reference as it was, and in neither
\* case does it make any other tab visible or activate any view.
C8_DestroyClearsActive ==
    [][\A t \in TabId :
          DestroyStep(t) =>
              /\ server.active_tab = t => server'.active_tab = NULL
              /\ server.active_tab # t => server'.active_tab = server.active_tab
              /\ \A u \in TabId \ {t} :
                    server'.is_visible[u] = server.is_visible[u]
              /\ \A i \in 1..Len(server'.calls) :
                    server'.calls[i].fn = "close"]_vars

\* C8 witness: the active (still flagged visible) tab was just destroyed
\* and is closing; other tabs remain and none of them is active.
C8_Witness ==
    /\ server.active_tab = NULL
    /\ Len(server.tabs) >= 2
    /\ \E i \in CloseCalls(server) :
          /\ server.calls[i].found = NULL
          /\ \E t \in TabId : /\ Closing(t)
                              /\ server.view_tab[server.calls[i].view] = t
                              /\ server.is_visible[t]

----------------------------------------------------------------------------
\* The calls on views a handler made, without the registry snapshots.
ViewCalls(s) ==
    [i \in 1..Len(s.calls) |->
        <<s.calls[i].fn, s.calls[i].view, s.calls[i].arg>>]

\* C9: tab_activate(t) with t not the active tab makes t active and
\* visible; the previously active tab, if any, becomes invisible and its
\* view is deactivated before t's view is activated and positioned; the
\* other tabs' visibility, the list order and the background flags stay.
C9_Activate ==
    [][\A t \in TabId :
          (ActivateStep(t) /\ server.active_tab # t) =>
              LET old == server.active_tab
                  off == IF old # NULL /\ server.view[old] # NULL
                         THEN <<<<"view_activate", server.view[old], FALSE>>>>
                         ELSE <<>>
                  on  == IF server.view[t] # NULL
                         THEN << <<"view_activate", server.view[t], TRUE>>,
                                 <<"view_position", server.view[t], FALSE>> >>
                         ELSE <<>>
              IN  /\ server'.active_tab = t
                  /\ server'.is_visible[t]
                  /\ old # NULL => ~server'.is_visible[old]
                  /\ ViewCalls(server') = off \o on
                  /\ \A u \in TabId \ {t, old} :
                        server'.is_visible[u] = server.is_visible[u]
                  /\ server'.tabs = server.tabs
                  /\ server'.is_background = server.is_background
                  /\ server'.view = server.view]_vars

\* C9 witness: the last handler deactivated one view, then activated and
\* positioned another, whose tab is now the active one.
C9_Witness ==
    /\ Len(server.calls) = 3
    /\ server.calls[1].fn = "view_activate" /\ server.calls[1].arg = FALSE
    /\ server.calls[2].fn = "view_activate" /\ server.calls[2].arg = TRUE
    /\ server.calls[3].fn = "view_position"
    /\ server.active_tab # NULL
    /\ server.view[server.active_tab] = server.calls[3].view
    /\ ~server.is_visible[server.calls[1].found]

----------------------------------------------------------------------------
\* The step is tab_create(view), run for a newly mapped view.
CreateStep(view, alloc_ok) ==
    /\ server.view_state[view] = "new"
    /\ server' = view_map(Begin(server), view, alloc_ok)

\* tab_create appended one new tab bound to `view` and changed nothing else
\* of the registry.
Appended(view) ==
    \E t \in TabId :
        /\ server.mem[t] = "unalloc"
        /\ server'.mem[t] = "live"
        /\ server'.tabs = Append(server.tabs, t)
        /\ server'.view[t] = view
        /\ ~server'.is_visible[t]
        /\ ~server'.is_background[t]
        /\ server'.active_tab = server.active_tab
        /\ server'.active_tab # t
        /\ tab_count(server') = tab_count(server) + 1
        /\ \A u \in TabId \ {t} :
              /\ server'.view[u] = server.view[u]
              /\ server'.is_visible[u] = server.is_visible[u]
              /\ server'.is_background[u] = server.is_background[u]

\* tab_create left the registry as it was.
NotCreated ==
    /\ server'.tabs = server.tabs
    /\ server'.active_tab = server.active_tab
    /\ server'.mem = server.mem
    /\ server'.view = server.view
    /\ server'.is_visible = server.is_visible
    /\ server'.is_background = server.is_background

\* C10 (as stated): every tab_create appends exactly one new tab at the end
\* of the list, bound to the view, not visible, not background, not active;
\* the count grows by one; the active reference and the existing tabs stay.
C10_CreateAlwaysAppends ==
    [][\A view \in ViewId, alloc_ok \in BOOLEAN :
          CreateStep(view, alloc_ok) => Appended(view)]_vars

\* C10 (amended): a tab_create whose allocations succeed appends exactly one
\* new tab as above; one whose allocation of the tab or of its scene tree
\* fails returns null and leaves the registry unchanged.
C10_CreateAppends ==
    [][\A view \in ViewId, alloc_ok \in BOOLEAN :
          CreateStep(view, alloc_ok) =>
              IF alloc_ok THEN Appended(view)
              ELSE NotCreated /\ server'.view_tab[view] = NULL]_vars

\* C10 witness: a tab was just appended behind an active tab: it is the last
\* of the list, bound to a mapped view, neither visible nor background nor
\* active, and the tab bar shows it.
C10_Witness ==
    LET n == Len(server.tabs) IN
    /\ n >= 2
    /\ server.calls = <<>>
    /\ server.active_tab # NULL
    /\ server.active_tab # server.tabs[n]
    /\ server.view[server.tabs[n]] # NULL
    /\ ~server.is_visible[server.tabs[n]]
    /\ ~server.is_background[server.tabs[n]]
    /\ Len(server.bar) >= 1
    /\ server.bar[Len(server.bar)] = server.tabs[n]
    /\ \A t \in TabId : t > server.tabs[n] => server.mem[t] = "unalloc"

----------------------------------------------------------------------------
(* Vocabulary of the control socket's properties                           *)

\* Position i of the handler's log is a command handed to process_command.
Dispatched(i) == i \in DOMAIN server.io /\ server.io[i].op = "dispatch"

\* The command dispatched at i is answered with `message`: the next step of
\* the handler hands exactly that text to send() for the same client, and
\* the peer receives it if the write side was still open.
Answered(i, message) ==
    /\ (i + 1) \in DOMAIN server.io
    /\ server.io[i + 1].op = "send"
    /\ server.io[i + 1].client = server.io[i].client
    /\ server.io[i + 1].text = message
    /\ server.io[i + 1].ok = ~server.io[i].wr_shut

\* Between the dispatch at i and its answer nothing outside the client
\* changed and no call was made on a view, the launcher or fork().
NothingChanged(i) == server.io[i + 1].snap = server.io[i].snap

\* The list-tabs commands of the log whose response reached the peer.
ListResponses ==
    {i \in DOMAIN server.io :
        /\ Dispatched(i)
        /\ server.io[i].text = STR_list_tabs
        /\ (i + 1) \in DOMAIN server.io
        /\ server.io[i + 1].op = "send"
        /\ server.io[i + 1].ok}

StartsWith(text, prefix) ==
    Len(text) >= Len(prefix) /\ SubSeq(text, 1, Len(prefix)) = prefix

Newlines(text) == {k \in 1..Len(text) : text[k] = "\n"}

\* The text before the first newline, and the text after it.
FirstLine(text) ==
    IF Newlines(text) = {} THEN text
    ELSE SubSeq(text, 1, (CHOOSE k \in Newlines(text) :
                             \A j \in Newlines(text) : k <= j) - 1)

AfterFirstLine(text) == Drop(text, Len(FirstLine(text)) + 1)

\* The count n declared by a status line "OK n".
DeclaredCount(text) == DigitsValue(Drop(FirstLine(text), 3), 0)

\* The lines of a text: the newline-terminated ones and, if the text does
\* not end in a newline, the unterminated rest.
LineCount(text) ==
    Cardinality(Newlines(text))
      + (IF text # <<>> /\ text[Len(text)] # "\n" THEN 1 ELSE 0)

----------------------------------------------------------------------------
(* C11: the count declared by list-tabs                                    *)

\* C11: in every list-tabs response delivered to a client the count n of
\* the status line "OK n" equals the number of detail lines that follow it.
C11_CountMatchesLines ==
    \A i \in ListResponses :
        LET response == server.io[i + 1].text
        IN  DeclaredCount(response) = LineCount(AfterFirstLine(response))

----------------------------------------------------------------------------
(* C12: the detail lines of list-tabs                                      *)

\* The registry as the command dispatched at i found it, with the titles
\* the views carry.
Listed(i) == [tabs  |-> server.io[i].snap.tabs,
              view  |-> server.io[i].snap.view,
              title |-> server.title]

\* "<index>: [<app-id>] <title>" for the tabs at positions k.. of the list,
\* one line per tab in list order, the indices counting from 0.
RECURSIVE DetailLines(_, _)
DetailLines(listed, k) ==
    IF k > Len(listed.tabs) THEN <<>>
    ELSE TabLine(listed, k) \o DetailLines(listed, k + 1)

\* C12: the detail lines of a list-tabs response are exactly one line
\* "<index>: [<app-id>] <title>" per tab of the registry, background tabs
\* included, in list order with indices 0, 1, ...; list-tabs changes nothing.
C12_ListsEveryTab ==
    \A i \in ListResponses :
        /\ AfterFirstLine(server.io[i + 1].text) = DetailLines(Listed(i), 1)
        /\ NothingChanged(i)

----------------------------------------------------------------------------
(* C13: malformed indices                                                  *)

\* The command is focus-tab or close-tab followed by a space.
IsIndexCommand(text) ==
    StartsWith(text, STR_focus_tab) \/ StartsWith(text, STR_close_tab)

\* What follows the verb (and "--force ", for close-tab) on the line.
IndexArg(text) ==
    IF StartsWith(text, STR_close_tab \o STR_force)
    THEN Drop(text, Len(STR_close_tab) + Len(STR_force))
    ELSE Drop(text, Len(STR_focus_tab))

IsDigits(a) == a # <<>> /\ \A k \in 1..Len(a) : a[k] \in Range(Digits)

\* The argument without leading white space and sign.
Unsigned(arg) ==
    LET a1 == Drop(arg, SpanIn(arg, Spaces))
    IN  IF a1 # <<>> /\ Head(a1) \in {"-", "+"} THEN Tail(a1) ELSE a1

Numeric(arg) == IsDigits(Unsigned(arg))

Negative(arg) ==
    /\ Numeric(arg)
    /\ Head(Drop(arg, SpanIn(arg, Spaces))) = "-"
    /\ DigitsValue(Unsigned(arg), 0) > 0

\* The index commands of the log whose argument is present but is not a
\* number, or is a negative one.
MalformedIndex(i) ==
    /\ Dispatched(i)
    /\ IsIndexCommand(server.io[i].text)
    /\ IndexArg(server.io[i].text) # <<>>
    /\ ~Numeric(IndexArg(server.io[i].text))
         \/ Negative(IndexArg(server.io[i].text))

\* C13: focus-tab and close-tab with a non-numeric or a negative index are
\* answered with exactly "ERROR Invalid tab index", and the active tab,
\* every visible flag and the tabs list stay as they were.
C13_InvalidIndex ==
    \A i \in DOMAIN server.io :
        MalformedIndex(i) =>
            /\ Answered(i, MSG_InvalidIndex)
            /\ NothingChanged(i)

\* Reached: with a tab active, a close-tab with a malformed index has been
\* refused and the peer has received the refusal.
C13_Witness ==
    \E i \in DOMAIN server.io :
        /\ MalformedIndex(i)
        /\ StartsWith(server.io[i].text, STR_close_tab)
        /\ server.io[i].snap.active_tab # NULL
        /\ server.io[i + 1].ok
        /\ server.io[i + 1].text = MSG_InvalidIndex

----------------------------------------------------------------------------
(* C14: indices past the end of the list                                   *)

\* The index commands of the log whose argument is a number.
NumberedIndex(i) ==
    /\ Dispatched(i)
    /\ IsIndexCommand(server.io[i].text)
    /\ IsDigits(IndexArg(server.io[i].text))

IndexValue(i) == DigitsValue(IndexArg(server.io[i].text), 0)

\* C14: with n tabs in the registry, focus-tab i and close-tab [--force] i
\* for a numeric i >= n are answered with exactly "ERROR Tab index out of
\* range"; no tab is activated or destroyed, no view is asked to close and
\* the registry stays as it was.
C14_OutOfRange ==
    \A i \in DOMAIN server.io :
        NumberedIndex(i) /\ IndexValue(i) >= Len(server.io[i].snap.tabs) =>
            /\ Answered(i, MSG_OutOfRange)
            /\ NothingChanged(i)

\* Reached: a forced close-tab past the end of a non-empty list has been
\* refused.
C14_Witness ==
    \E i \in DOMAIN server.io :
        /\ NumberedIndex(i)
        /\ StartsWith(server.io[i].text, STR_close_tab \o STR_force)
        /\ server.io[i].snap.tabs # <<>>
        /\ IndexValue(i) >= Len(server.io[i].snap.tabs)
        /\ server.io[i + 1].ok
        /\ server.io[i + 1].text = MSG_OutOfRange

----------------------------------------------------------------------------
(* C15: index commands without an index                                    *)

\* The command is `verb` and nothing else but spaces.
BareCommand(text, verb) ==
    /\ StartsWith(text, verb)
    /\ \A k \in (Len(verb) + 1)..Len(text) : text[k] = " "

\* The commands of the log that name focus-tab or close-tab (with or
\* without --force) and carry no index.
NoIndex(i) ==
    /\ Dispatched(i)
    /\ \/ BareCommand(server.io[i].text, Take(STR_focus_tab, 9))
       \/ BareCommand(server.io[i].text, Take(STR_close_tab, 9))
       \/ BareCommand(server.io[i].text, STR_close_tab \o Take(STR_force, 7))

\* C15: a focus-tab or close-tab line (close-tab with or without --force)
\* that carries no index is answered with exactly "ERROR Missing tab index"
\* and leaves the registry as it was.
C15_MissingIndex ==
    \A i \in DOMAIN server.io :
        NoIndex(i) => Answered(i, MSG_MissingIndex) /\ NothingChanged(i)

----------------------------------------------------------------------------
(* C16: unknown commands                                                   *)

\* The verb of a command line: the text before its first space.
Verb(text) ==
    LET spaces == {k \in 1..Len(text) : text[k] = " "}
    IN  IF spaces = {} THEN text
        ELSE SubSeq(text, 1, (CHOOSE k \in spaces :
                                 \A j \in spaces : k <= j) - 1)

KnownVerbs == {STR_list_tabs, Take(STR_focus_tab, 9), Take(STR_close_tab, 9),
               Take(STR_new_tab, 7), STR_show_launcher}

UnknownVerb(i) == Dispatched(i) /\ Verb(server.io[i].text) \notin KnownVerbs

\* C16: a command line whose verb is none of list-tabs, focus-tab,
\* close-tab, new-tab, show-launcher is answered with exactly "ERROR Unknown
\* command"; the registry is not changed, the launcher is not shown and no
\* process is spawned.
C16_UnknownCommand ==
    \A i \in DOMAIN server.io :
        UnknownVerb(i) => Answered(i, MSG_Unknown) /\ NothingChanged(i)

\* Reached: an unknown command has been refused while tabs exist.
C16_Witness ==
    \E i \in DOMAIN server.io :
        /\ UnknownVerb(i)
        /\ server.io[i].text # <<>>
        /\ server.io[i].snap.tabs # <<>>
        /\ server.io[i + 1].ok
        /\ server.io[i + 1].text = MSG_Unknown

----------------------------------------------------------------------------
(* C17: focus-tab addresses every tab                                      *)

\* The focus-tab commands of the log whose index is inside the list.
FocusInRange(i) ==
    /\ NumberedIndex(i)
    /\ StartsWith(server.io[i].text, STR_focus_tab)
    /\ IndexValue(i) < Len(server.io[i].snap.tabs)

\* C17: focus-tab i with 0 <= i < count activates the tab at position i of
\* the list, every tab counted, and answers "OK": afterwards that tab is the
\* active one and visible, background or not, and the list and the
\* background flags are as before.
C17_FocusByPosition ==
    \A i \in DOMAIN server.io :
        FocusInRange(i) =>
            LET before == server.io[i].snap
                after  == server.io[i + 1].snap
                tab    == before.tabs[IndexValue(i) + 1]
            IN  /\ Answered(i, MSG_OK)
                /\ after.active_tab = tab
                /\ after.is_visible[tab]
                /\ after.tabs = before.tabs
                /\ after.is_background = before.is_background

\* Reached: focus-tab 1 has brought up a background tab that stands behind
\* a foreground tab and was not the active one.
C17_Witness ==
    \E i \in DOMAIN server.io :
        /\ FocusInRange(i)
        /\ IndexValue(i) = 1
        /\ server.io[i].snap.is_background[server.io[i].snap.tabs[2]]
        /\ ~server.io[i].snap.is_background[server.io[i].snap.tabs[1]]
        /\ server.io[i].snap.active_tab = server.io[i].snap.tabs[1]
        /\ server.io[i + 1].ok
        /\ server.io[i + 1].snap.active_tab = server.io[i].snap.tabs[2]

----------------------------------------------------------------------------
(* C18: the lines of a read                                                *)

\* The newline-terminated lines of a text, in order, without their
\* newlines, and the text after the last newline.
RECURSIVE CompleteLines(_)
CompleteLines(text) ==
    IF Newlines(text) = {} THEN <<>>
    ELSE <<FirstLine(text)>> \o CompleteLines(AfterFirstLine(text))

RECURSIVE Unterminated(_)
Unterminated(text) ==
    IF Newlines(text) = {} THEN text ELSE Unterminated(AfterFirstLine(text))

\* The commands the handler dispatched, in the order it dispatched them.
DispatchedLines ==
    LET picked == SelectSeq(server.io, LAMBDA e : e.op = "dispatch")
    IN  [k \in 1..Len(picked) |-> picked[k].text]

\* The handler has read bytes into a client's buffer.
HasRead == server.io # <<>> /\ server.io[1].op = "read"

\* C18: after a read, every complete line of the client's buffer is
\* dispatched exactly once, in the order of the byte stream, each command
\* finding the state its predecessor left, and is taken out of the buffer;
\* the bytes after the last newline stay in the buffer.
C18_LinesInOrder ==
    HasRead =>
        LET c == server.io[1].client
        IN  /\ DispatchedLines = CompleteLines(server.io[1].text)
            /\ \A k \in 2..Len(server.io) :
                   server.io[k].op = "dispatch" =>
                       server.io[k].snap = server.io[k - 1].snap
            /\ server.clients[c].state = "open" =>
                   server.clients[c].buffer = Unterminated(server.io[1].text)

----------------------------------------------------------------------------
(* C19: two commands in one write                                          *)

\* C19: when one write brings two complete command lines, each of them is
\* answered and the peer receives both responses, in the order of the
\* commands.
C19_BothResponsesReceived ==
    HasRead /\ Len(CompleteLines(server.io[1].text)) >= 2 =>
        /\ Len(DispatchedLines) = Len(CompleteLines(server.io[1].text))
        /\ \A i \in DOMAIN server.io :
               Dispatched(i) =>
                   /\ (i + 1) \in DOMAIN server.io
                   /\ server.io[i + 1].op = "send"
                   /\ server.io[i + 1].ok

----------------------------------------------------------------------------
(* C20: one response per connection                                        *)

\* C20: a response that send() accepted finds the write side open and is
\* followed at once by its shut-down: every later step of the handler sees
\* the write side shut and every later send() on the connection is refused,
\* so a connection delivers at most one response and its write side is shut
\* exactly when it has delivered one.
C20_HalfCloseAfterResponse ==
    /\ \A k \in DOMAIN server.io :
           server.io[k].op = "send" /\ server.io[k].ok =>
               /\ ~server.io[k].wr_shut
               /\ \A j \in (k + 1)..Len(server.io) :
                      server.io[j].client = server.io[k].client =>
                          /\ server.io[j].wr_shut
                          /\ server.io[j].op = "send" => ~server.io[j].ok
    /\ \A c \in ClientId :
           /\ server.clients[c].nresp <= 1
           /\ server.clients[c].wr_shut <=> server.clients[c].nresp = 1

\* Reached: a handler has delivered one response, shut the write side and
\* had a second response refused on the same connection.
C20_Witness ==
    \E k \in DOMAIN server.io, j \in DOMAIN server.io :
        /\ k < j
        /\ server.io[k].op = "send" /\ server.io[k].ok
        /\ server.io[j].op = "send" /\ ~server.io[j].ok
        /\ server.io[j].client = server.io[k].client
        /\ server.clients[server.io[k].client].wr_shut
        /\ server.clients[server.io[k].client].nresp = 1

----------------------------------------------------------------------------
(* C21: a full buffer without a newline                                    *)

\* The handler's read left client c's buffer full and without a newline.
ReadFilled(c) ==
    /\ HasRead
    /\ server.io[1].client = c
    /\ Len(server.io[1].text) >= CONTROL_BUFFER_SIZE
    /\ Newlines(server.io[1].text) = {}

\* C21: a client's buffer never holds more than CONTROL_BUFFER_SIZE bytes,
\* and between two handlers it holds no complete line; when a read leaves
\* the buffer full and without a newline, the client is destroyed (its slot
\* is free, its buffer gone) and the handler has dispatched no command.
C21_FullBufferDisconnects ==
    \A c \in ClientId :
        /\ Len(server.clients[c].buffer) <= CONTROL_BUFFER_SIZE
        /\ ~server.crashed => Newlines(server.clients[c].buffer) = {}
        /\ ReadFilled(c) =>
               /\ server.clients[c] = NoClient
               /\ \A i \in DOMAIN server.io : ~Dispatched(i)

\* C21 witness: a read left the buffer full and without a newline, and the
\* client is gone.
C21_Witness ==
    \E c \in ClientId :
        /\ ReadFilled(c)
        /\ Len(server.io[1].text) = CONTROL_BUFFER_SIZE
        /\ server.clients[c].state = "free"

\* A read filled the buffer to its capacity behind a complete line: the
\* line was dispatched and the client stays.
C21_WitnessLineThenFill ==
    \E c \in ClientId :
        /\ HasRead
        /\ Len(server.io[1].text) = CONTROL_BUFFER_SIZE
        /\ \E i \in DOMAIN server.io : Dispatched(i)
        /\ server.clients[c].state = "open"
        /\ Len(server.clients[c].buffer) = CONTROL_BUFFER_SIZE - 10

----------------------------------------------------------------------------
(* C22: the failure of one connection                                      *)

\* The TabRegistry: the list, the active reference and every tab's fields.
Registry(s) ==
    [tabs |-> s.tabs, active_tab |-> s.active_tab, view |-> s.view,
     is_visible |-> s.is_visible, is_background |-> s.is_background]

\* The step is handle_client_data for client c.
ClientStep(c) ==
    /\ server.clients[c].state = "open"
    /\ \E env \in Env : server' = handle_client_data(Begin(server), c, env)

\* ... which ended with the client destroyed: hang-up, end of file or read
\* error, or a full buffer.
Removed(c) == ClientStep(c) /\ server'.clients[c].state = "free"

\* ... in which every command of the client was answered with an error.
ProtocolError(c) ==
    /\ ClientStep(c)
    /\ \E i \in DOMAIN server'.io : server'.io[i].op = "send"
    /\ \A i \in DOMAIN server'.io :
           server'.io[i].op = "send" =>
               StartsWith(server'.io[i].text, <<"E", "R", "R", "O", "R">>)

\* The step is handle_socket_event failing to set up the connection.
AcceptFails(c) ==
    /\ server.clients[c].state = "free"
    /\ server' = handle_socket_event(Begin(server), c, FALSE)

\* C22: a handler that removes a client, answers a client's commands with
\* errors, or fails to accept a connection leaves every other client and
\* its buffer as they were, leaves the server listening on its socket and
\* running, and leaves the tab registry unchanged.
C22_FailureStaysLocal ==
    [][\A c \in PeerId :
          (Removed(c) \/ ProtocolError(c) \/ AcceptFails(c)) =>
              /\ \A d \in PeerId \ {c} :
                     server'.clients[d] = server.clients[d]
              /\ server'.control = server.control
              /\ server'.control.listening
              /\ server'.files = server.files
              /\ Registry(server') = Registry(server)
              /\ ~server'.crashed]_vars

\* C22 witness: a full buffer has just cost one client its connection
\* while another client is connected with the beginning of a command in its
\* buffer, and the registry holds a tab.
C22_Witness ==
    \E c, d \in PeerId :
        /\ c # d
        /\ ReadFilled(c)
        /\ server.clients[c].state = "free"
        /\ server.clients[d].state = "open"
        /\ server.clients[d].buffer # <<>>
        /\ server.tabs # <<>>
        /\ server.control.listening

----------------------------------------------------------------------------
(* C23: control_server_destroy                                             *)

\* The path the running server bound.
BoundPath == Started(server.pid, server.instance_name).control.socket_path

\* The clients control_server_destroy found connected.
DestroyedClients ==
    {server.io[i].client : i \in {j \in DOMAIN server.io :
                                      server.io[j].op = "destroy"}}

\* C23: once control_server_destroy has run, no client is left, the server
\* no longer listens and the socket file is gone.
C23_DestroyClosesAll ==
    ~server.control.listening =>
        /\ \A c \in PeerId : server.clients[c] = NoClient
        /\ server.control = NoControl
        /\ BoundPath \notin server.files

\* C23 witness: control_server_destroy ran with every client slot taken.
C23_Witness ==
    /\ ~server.control.listening
    /\ DestroyedClients = PeerId

----------------------------------------------------------------------------
(* C24: the client's exit status                                           *)

\* The client process has sent a command and has exited.
CliDone == server.cli.pc = "done" /\ server.cli.sent # NULL_STR

\* The status line the client received is OK.
StatusOK == StartsWith(server.cli.inbox, <<"O", "K">>)

\* C24: a client process that sent its command exits with 0 if and only if
\* the status line it received is OK and receiving did not fail, and with 1
\* otherwise; a process that could not connect or send exits with 1.
C24_ExitFollowsStatus ==
    /\ CliDone =>
           /\ server.cli.exit \in {0, 1}
           /\ server.cli.exit = 0 <=>
                  (StatusOK /\ server.cli.stderr = "none")
    /\ (server.cli.pc = "done" /\ server.cli.socket_path # NULL_STR
           /\ server.cli.sent = NULL_STR) => server.cli.exit = 1

\* The client received an error response and exited with 0.
C24_ErrorExitsZero ==
    /\ CliDone
    /\ StartsWith(server.cli.inbox, <<"E", "R", "R", "O", "R">>)
    /\ server.cli.exit = 0

----------------------------------------------------------------------------
(* C25: the endpoint's path                                                *)

\* <runtime-dir>/waymux/<N>.sock
EndpointPath(N) == RuntimeDir \o STR_waymux_dir \o <<"/">> \o N \o STR_sock

\* C25: the path the server of instance N bound and the path a client
\* targeting N connects to are both <runtime-dir>/waymux/<N>.sock.
C25_SameEndpointPath ==
    /\ server.control.listening =>
           server.control.socket_path = EndpointPath(server.instance_name)
    /\ (server.cli.socket_path # NULL_STR
           /\ server.cli.instance_name = server.instance_name) =>
           /\ server.cli.socket_path = EndpointPath(server.instance_name)
           /\ server.cli.socket_path = server.control.socket_path

\* A client targeting the default instance did not reach the server
\* started with the default instance name.
C25_DefaultUnreachable ==
    /\ server.instance_name = STR_default
    /\ server.cli.instance_name = STR_default
    /\ server.cli.pc = "done"
    /\ server.cli.sent = NULL_STR
    /\ server.cli.socket_path # server.control.socket_path

----------------------------------------------------------------------------
(* C26: the tab bar after a mutation of the registry                       *)

\* The view-bound, non-background tabs of the registry, in list order.
Shown(s) ==
    SelectSeq(s.tabs, LAMBDA t : s.view[t] # NULL /\ ~s.is_background[t])

\* C26: after tab_create, tab_activate and tab_destroy the buttons the tab
\* bar rendered last are the view-bound, non-background tabs of the registry
\* as the operation left it.
C26_BarShowsRegistry ==
    [][/\ \A t \in TabId :
             (DestroyStep(t) \/ ActivateStep(t)) =>
                 server'.bar = Shown(server')
       /\ \A view \in ViewId, alloc_ok \in BOOLEAN :
             (CreateStep(view, alloc_ok) /\ server'.tabs # server.tabs) =>
                 server'.bar = Shown(server')]_vars

\* The tab bar shows a button for a tab that is no longer in the registry.
C26_StaleButton == \E t \in Range(server.bar) : ~InRegistry(t)

----------------------------------------------------------------------------
(* C27: tab_set_background                                                 *)

\* The step is tab_set_background(t, flag) run as a whole handler.
SetBackgroundStep(t, flag) ==
    InRegistry(t) /\ server' = tab_set_background(Begin(server), t, flag)

\* C27: tab_set_background(t, flag) stores flag in t's background flag and
\* leaves the active reference, every visible flag, the list and the other
\* tabs' background flags as they were, also when t is the active tab; on a
\* null tab it changes nothing.
C27_SetBackgroundFrame ==
    [][/\ \A t \in TabId, flag \in BOOLEAN :
             SetBackgroundStep(t, flag) =>
                 /\ server'.is_background[t] = flag
                 /\ \A u \in TabId \ {t} :
                        server'.is_background[u] = server.is_background[u]
                 /\ server'.active_tab = server.active_tab
                 /\ server'.is_visible = server.is_visible
                 /\ server'.tabs = server.tabs
                 /\ server'.view = server.view
       /\ \A flag \in BOOLEAN :
             tab_set_background(server, NULL, flag) = server]_vars

\* C27 witness: the active tab is in the background, still active and
\* visible, next to a foreground tab.
C27_Witness ==
    /\ server.active_tab # NULL
    /\ server.is_background[server.active_tab]
    /\ server.is_visible[server.active_tab]
    /\ Foreground(server) # {}

----------------------------------------------------------------------------
(* C28: every close request finds the tab unlisted                         *)

\* C28: whenever a handler asks a view to close, the tab that owned the
\* view is at that instant no longer on the tabs list: neither a lookup by
\* view nor one by index finds a tab bound to the view.
C28_UnlistedBeforeClose ==
    \A i \in CloseCalls(server) :
        /\ server.calls[i].found = NULL
        /\ \A t \in Range(server.calls[i].tabs) :
               server.view_tab[server.calls[i].view] # t

\* A handler asked a view to close while its tab was on the list, and the
\* tab is still there after the handler.
C28_ClosedWhileListed ==
    \E i \in CloseCalls(server) :
        /\ server.calls[i].found # NULL
        /\ InRegistry(server.calls[i].found)

----------------------------------------------------------------------------
(* C29: what tab_destroy removes                                           *)

\* C29: tab_destroy(t) takes exactly t off the list: the count drops by
\* one, the other tabs keep their relative order, their visible and their
\* background flags, and every tab behind t is found at the index one
\* below its old one.
C29_DestroyRemovesOne ==
    [][\A t \in TabId :
          DestroyStep(t) =>
              LET i == IndexOf(server.tabs, t) IN
              /\ tab_count(server') = tab_count(server) - 1
              /\ server'.tabs = ListRemove(server.tabs, t)
              /\ \A u \in Range(server.tabs) \ {t} :
                     /\ InRegistry(u)'
                     /\ server'.is_visible[u] = server.is_visible[u]
                     /\ server'.is_background[u] = server.is_background[u]
                     /\ server'.view[u] = server.view[u]
              /\ \A k \in 1..Len(server.tabs) :
                     /\ k < i => find_by_index(server', k - 1)
                                     = server.tabs[k]
                     /\ k > i => find_by_index(server', k - 2)
                                     = server.tabs[k]]_vars

\* C29 witness: the last handler closed the view of a tab that had a tab
\* before it and a tab behind it, and both are still listed.
C29_Witness ==
    /\ Len(server.tabs) >= 2
    /\ \E i \in CloseCalls(server) :
          /\ server.calls[i].found = NULL
          /\ \E k \in 2..Len(server.calls[i].tabs) :
                 /\ server.calls[i].tabs[k - 1] = server.tabs[k - 1]
                 /\ server.calls[i].tabs[k] = server.tabs[k]
                 /\ server.tabs[k - 1] < server.tabs[k]

----------------------------------------------------------------------------
(* C30: activating the active tab                                          *)

\* C30: tab_activate(t) with t already the active tab changes neither the
\* active reference, nor a visible flag, nor the list, calls neither
\* view_activate nor view_position, and leaves the state a second
\* tab_activate(t) leaves.
C30_ReactivateIsNoOp ==
    [][\A t \in TabId :
          (ActivateStep(t) /\ server.active_tab = t) =>
              /\ Registry(server') = Registry(server)
              /\ ViewCalls(server') = <<>>
              /\ tab_activate(Begin(server'), t) = server']_vars

\* The active tab was activated again and its view was activated and
\* positioned once more.
C30_ReactivateCallsView ==
    /\ server.active_tab # NULL
    /\ ViewCalls(server) =
          <<<<"view_activate", server.view[server.active_tab], TRUE>>,
            <<"view_position", server.view[server.active_tab], FALSE>>>>

----------------------------------------------------------------------------
(* C31: visible means active                                               *)

\* C31: a tab of the registry is visible if and only if it is the active
\* tab; with no active tab no tab of the registry is visible.
C31_VisibleIffActive ==
    \A t \in Range(server.tabs) :
        server.is_visible[t] <=> server.active_tab = t

\* C31 witness: a tab is active and visible next to a tab that was active
\* before it and is hidden now.
C31_Witness ==
    /\ server.active_tab # NULL
    /\ server.is_visible[server.active_tab]
    /\ \E i \in 1..Len(server.calls) :
          /\ server.calls[i].fn = "view_activate"
          /\ server.calls[i].arg = FALSE
          /\ server.calls[i].found # NULL
          /\ InRegistry(server.calls[i].found)
          /\ ~server.is_visible[server.calls[i].found]

\* C31 witness: no tab is active while tabs are listed.
C31_WitnessNoneActive ==
    /\ server.active_tab = NULL
    /\ Len(server.tabs) >= 2
    /\ \E t \in TabId : Closing(t) /\ server.is_visible[t]

----------------------------------------------------------------------------
(* C32: the tab behind a button                                            *)

\* What a click of the given kind does to tab t.
ClickOn(s, t, on_close_button, button) ==
    IF on_close_button /\ button = "BTN_LEFT" THEN tab_destroy(s, t)
    ELSE IF button = "BTN_LEFT" THEN tab_activate(s, t)
    ELSE IF button = "BTN_MIDDLE" THEN tab_destroy(s, t)
    ELSE s

\* C32: a click on the i-th button of the tab bar does to the tab that
\* button displays what the click's kind asks for, in every registry state.
C32_ClickActsOnShownTab ==
    [][\A i \in 0..(MaxViews - 1), click \in Clicks :
          (/\ i < Len(server.bar)
           /\ server' = tab_bar_handle_click(Begin(server), i,
                                             click[1], click[2])) =>
              server' = ClickOn(Begin(server), server.bar[i + 1],
                                click[1], click[2])]_vars

\* The tab bar was rendered without a background tab that precedes a
\* foreground tab in the list: button 0 shows one tab, the click handler's
\* walk stops at another.
C32_ButtonMismatch ==
    /\ server.bar # <<>>
    /\ server.bar = Shown(server)
    /\ clicked_tab(server, 0) # server.bar[1]

----------------------------------------------------------------------------
(* C33: the dialog's results                                               *)

\* C33: while the dialog is visible every entry of its results is a tab of
\* the registry, and no handler leaves the active reference on a tab that
\* is off the list or released.
C33_ResultsInRegistry ==
    /\ server.dialog.is_visible =>
           \A i \in 1..Len(server.dialog.results) :
               InRegistry(server.dialog.results[i])
    /\ server.active_tab # NULL => InRegistry(server.active_tab)

\* Return in the dialog has activated a tab that is not in the registry.
C33_ActivatedDestroyedTab ==
    /\ ~server.dialog.is_visible
    /\ server.active_tab # NULL
    /\ ~InRegistry(server.active_tab)
    /\ server.active_tab \in Range(server.dialog.results)

----------------------------------------------------------------------------
(* C34: a command written before the peer closed                           *)

\* C34: when the handler runs for a client whose socket holds a complete
\* command line, the command is dispatched in that handler, whether or not
\* the peer has closed its end in the meantime.
C34_WrittenCommandDispatched ==
    [][\A c \in PeerId :
          (/\ ClientStep(c)
           /\ server.clients[c].buffer = <<>>
           /\ Newlines(server.clients[c].rx) # {}) =>
              \E i \in DOMAIN server'.io :
                  /\ server'.io[i].op = "dispatch"
                  /\ server'.io[i].client = c]_vars

\* A peer has written a complete command and closed its end before the
\* server's handler ran.
C34_ClosedWithUnreadCommand ==
    \E c \in PeerId :
        /\ server.clients[c].state = "open"
        /\ server.clients[c].peer = "closed"
        /\ Newlines(server.clients[c].rx) # {}

-----------------------------------------------------------------------------
(* The control socket with a send buffer that may be short of room          *)

\* Room of a nearly full send buffer, in bytes.
ShortRoom == 2

\* What send() may find: no room, a little room, room for any response.
Rooms == {0, ShortRoom, CONTROL_BUFFER_SIZE}

TxScripts ==
    {<<Line(STR_list_tabs)>>,
     <<Line(STR_focus_tab \o <<"0">>)>>,
     <<Line(STR_focus_tab \o <<"9">>)>>}

\* accept(): the new connection's send buffer has some room.
TxConnect ==
    \E c \in ClientId, room \in Rooms :
        /\ ~server.crashed
        /\ server.clients[c].state = "free"
        /\ server' = [handle_socket_event(Begin(server), c, TRUE)
                          EXCEPT !.clients[c].room = room]

\* The peer writes its one command and waits for the response.
TxWrite ==
    \E c \in ClientId, script \in TxScripts :
        /\ ~server.crashed
        /\ server.clients[c].state = "open"
        /\ server.clients[c].peer = "new"
        /\ server' = [Begin(server) EXCEPT
                         !.clients[c].rx = Head(script),
                         !.clients[c].peer = "open"]

\* The peer has read up to end of file and closes its end.
TxClose ==
    \E c \in ClientId :
        /\ ~server.crashed
        /\ server.clients[c].state = "open"
        /\ server.clients[c].wr_shut
        /\ server.clients[c].peer = "open"
        /\ server' = [Begin(server) EXCEPT !.clients[c].peer = "closed"]

TxEvent ==
    \E c \in ClientId, env \in Env :
        /\ ~server.crashed
        /\ server.clients[c].state = "open"
        /\ server.clients[c].rx # <<>>
           \/ server.clients[c].peer = "closed"
        /\ server' = handle_client_data(Begin(server), c, env)

TxViewMap ==
    \E view \in 1..MaxListed, title \in {"none", "short"} :
        /\ ~server.crashed
        /\ server.view_state[view] = "new"
        /\ \A u \in ViewId : u < view => server.view_state[u] # "new"
        /\ server' = Begin(view_map([server EXCEPT !.title[view] = title],
                                    view, TRUE))

TxViewUnmap ==
    \E view \in ViewId :
        /\ ~server.crashed
        /\ server.view_state[view] = "mapped"
        /\ server' = [Begin(view_unmap(server, view))
                          EXCEPT !.title[view] = "none"]

NextTx ==
    \/ TxConnect
    \/ TxWrite
    \/ TxClose
    \/ TxEvent
    \/ TxViewMap
    \/ TxViewUnmap

SpecTx == Init /\ [][NextTx]_vars

\* C35: when the server half-closes a connection after a response, every
\* byte of the response has been handed to the socket: the client that
\* reads up to end of file has the whole response.
C35_EofAfterWholeResponse ==
    \A i \in DOMAIN server.io :
        (/\ server.io[i].op = "send"
         /\ server.io[i].ok) =>
            \A j \in DOMAIN server.io : server.io[j].op # "short"

\* A list-tabs response was cut short by send() and the connection
\* half-closed behind it.
C35_HalfClosedAfterShortWrite ==
    \E i \in DOMAIN server.io, c \in ClientId :
        /\ server.io[i].op = "short"
        /\ server.io[i].client = c
        /\ server.clients[c].wr_shut
        /\ Len(server.io[i].text) < Len(server.io[i - 1].text)
        /\ Take(server.io[i - 1].text, 3) = <<"O", "K", " ">>

\* C36: no command line that waymuxctl sends is answered with
\* "ERROR Unknown command": the dispatcher knows every command of the
\* client.
C36_ClientCommandsKnown ==
    \A i \in DOMAIN server.io :
        (/\ server.io[i].op = "send"
         /\ server.cli.pc = "recv"
         /\ server.io[i].client = server.cli.slot) =>
            server.io[i].text # MSG_Unknown

\* The server has dispatched the client's "foreground 0".
C36_ForegroundDispatched ==
    \E i \in DOMAIN server.io :
        /\ server.io[i].op = "dispatch"
        /\ server.io[i].text = STR_foreground \o <<" ", "0">>
        /\ server.cli.sent = STR_foreground \o <<" ", "0">>

-----------------------------------------------------------------------------
(* Instances starting and stopping next to each other                       *)

RegStart ==
    \E k \in InstId, instance_name \in RegNames,
       argv_profile \in Profiles \cup {NULL_STR} :
        /\ server.reg.inst[k].pc = "off"
        /\ server' = [server EXCEPT !.reg =
                          main_start(@, k, instance_name, argv_profile)]

RegCheck ==
    \E k \in InstId, load_ok \in BOOLEAN :
        /\ server.reg.inst[k].pc = "check"
        /\ server' = [server EXCEPT !.reg =
                          spawn_profile_tabs_check(@, k, load_ok)]

RegSpawn ==
    \E k \in InstId :
        /\ server.reg.inst[k].pc = "spawn"
        /\ server' = [server EXCEPT !.reg = spawn_profile_tabs_spawn(@, k)]

RegRegister ==
    \E k \in InstId :
        /\ server.reg.inst[k].pc = "register"
        /\ server' = [server EXCEPT !.reg =
                          spawn_profile_tabs_register(@, k)]

RegQuit ==
    \E k \in InstId :
        /\ server.reg.inst[k].pc = "run"
        /\ server' = [server EXCEPT !.reg = main_quit(@, k)]

RegEnd ==
    \E k \in InstId :
        /\ server.reg.inst[k].pc = "end"
        /\ server' = [server EXCEPT !.reg = main_end(@, k)]

NextReg ==
    \/ RegStart
    \/ RegCheck
    \/ RegSpawn
    \/ RegRegister
    \/ RegQuit
    \/ RegEnd

SpecReg == Init /\ [][NextReg]_vars

\* The processes that hold (have passed the lock check for) a profile.
Holders(profile) ==
    {k \in InstId : /\ server.reg.inst[k].pc \in {"spawn", "register", "run"}
                    /\ server.reg.inst[k].profile_name = profile}

\* C37: no two registry entries name the same profile, and of the
\* instances started with one profile at most one gets past the lock
\* check to spawn the profile's tabs.
C37_ProfileHeldOnce ==
    /\ \A n, m \in RegNames :
          (/\ n # m
           /\ server.reg.files[n].exists
           /\ server.reg.files[m].exists
           /\ server.reg.files[n].profile # NULL_STR) =>
              server.reg.files[n].profile # server.reg.files[m].profile
    /\ \A profile \in Profiles : Cardinality(Holders(profile)) <= 1

\* Two instances run with the tabs of the same profile spawned, both
\* registered.
C37_BothSpawned ==
    \E k, l \in InstId :
        /\ k # l
        /\ server.reg.inst[k].pc = "run"
        /\ server.reg.inst[l].pc = "run"
        /\ server.reg.inst[k].spawned
        /\ server.reg.inst[l].spawned
        /\ server.reg.inst[k].registered
        /\ server.reg.inst[l].registered
        /\ server.reg.inst[k].profile_name = server.reg.inst[l].profile_name

\* C38: a registry entry is removed only by the process that created it,
\* at its shutdown.
C38_RemovedByOwner ==
    [][\A n \in RegNames :
          (/\ server.reg.files[n].exists
           /\ ~server'.reg.files[n].exists) =>
              /\ server.reg.inst[server.reg.files[n].owner].pc = "end"
              /\ server'.reg.inst[server.reg.files[n].owner].pc = "off"]_vars

\* An instance runs with the profile it registered, and the profile is
\* not locked: its entry is gone.
C38_HolderUnlocked ==
    \E k \in InstId :
        /\ server.reg.inst[k].pc = "run"
        /\ server.reg.inst[k].registered
        /\ ~registry_is_profile_locked(server.reg,
                                       server.reg.inst[k].profile_name)

\* C39: on every foreground tab of the registry tab_prev undoes tab_next
\* and tab_next undoes tab_prev; both return a tab for a tab and NULL
\* only for NULL.
C39_NextPrevInverse ==
    /\ tab_next(server, NULL) = NULL
    /\ tab_prev(server, NULL) = NULL
    /\ \A i \in DOMAIN server.tabs :
          LET t == server.tabs[i] IN
          ~server.is_background[t] =>
              /\ tab_next(server, t) # NULL
              /\ tab_prev(server, t) # NULL
              /\ tab_prev(server, tab_next(server, t)) = t
              /\ tab_next(server, tab_prev(server, t)) = t

\* Three tabs, the middle one in the background, and the active tab is
\* the first one, whose predecessor is found by wrapping to the last.
C39_Witness ==
    /\ Len(server.tabs) = 3
    /\ server.is_background[server.tabs[2]]
    /\ ~server.is_background[server.tabs[1]]
    /\ server.active_tab = server.tabs[1]
    /\ tab_prev(server, server.tabs[1]) = server.tabs[3]
    /\ tab_next(server, tab_prev(server, server.tabs[1])) = server.tabs[1]
====
